---- MODULE Spec2Model ----
(***************************************************************************)
(* Model of the 110% Protocol System (src/src/protocol.ts, src/src/core.ts,*)
(* src/src/self-healing.ts).                                               *)
(*                                                                         *)
(* Texts (error messages) are sequences of one-character strings so that   *)
(* String(error) and the case-insensitive regular expressions of the       *)
(* healing strategies are computed, not assumed.                           *)
(* Date fields of records (timestamp) and metadata.executionTime are left  *)
(* out of the records; the clock itself is the variable now.               *)
(***************************************************************************)
EXTENDS Integers, Sequences, FiniteSets, TLC

\* ------------------------------------------------------------------ bounds
\* Number of execute calls made on the instance.
MaxOps == 2
\* Number of execute calls that may be in flight at once.
MaxCalls == 2
\* Last value of the millisecond clock.
MaxTime == 1
\* Number of execute calls made by a caller that awaits each one.
MaxSequentialOps == 5
MaxHeals == 2
MaxRegistrations == 1
MaxSequentialHeals == 102
MaxUnmatchedHeals == 3
MaxObservations == 10
MaxInsights == 2
MaxLongObservations == 23
\* Number of records created directly in one ledger.
MaxRecords == 3
\* Number of adapters registered with one IntegrationManager.
MaxAdapters == 2

\* ------------------------------------------------------- types.ts constants
BASELINE == 100
ENHANCED == 110
EXCEPTIONAL == 120
TRANSFORMATIVE == 150

LOW == "low"
MEDIUM == "medium"
HIGH == "high"
CRITICAL == "critical"

STATUS_SUCCESS == "success"
STATUS_FAILED == "failed"
STATUS_ENHANCED == "enhanced"

DefaultMaxRecommendations == 50
HealthyThreshold == 80

\* --------------------------------------------------------------- texts
TestError == <<"T","e","s","t"," ","e","r","r","o","r">>
NetworkTimeoutError ==
    <<"N","e","t","w","o","r","k"," ","t","i","m","e","o","u","t"," ",
      "e","r","r","o","r">>
ErrorPrefix == <<"E","r","r","o","r",":"," ">>

\* Messages of the errors the caller-supplied operation throws.
ErrorMessages == {TestError, NetworkTimeoutError}

\* String(error) of an Error object: "Error: " followed by its message.
StringOfError(message) == ErrorPrefix \o message

UpperCase == <<"A","B","C","D","E","F","G","H","I","J","K","L","M",
               "N","O","P","Q","R","S","T","U","V","W","X","Y","Z">>
LowerCase == <<"a","b","c","d","e","f","g","h","i","j","k","l","m",
               "n","o","p","q","r","s","t","u","v","w","x","y","z">>

\* One character folded to lower case (the /i flag of the patterns).
ToLower(ch) ==
    IF \E i \in 1..26 : UpperCase[i] = ch
    THEN LowerCase[CHOOSE i \in 1..26 : UpperCase[i] = ch]
    ELSE ch

\* text contains word, ignoring case.
ContainsIgnoreCase(text, word) ==
    \E i \in 1..(Len(text) - Len(word) + 1) :
        \A j \in 1..Len(word) : ToLower(text[i + j - 1]) = ToLower(word[j])

\* RegExp.test for a pattern that is an alternation of literal words.
PatternTest(alternatives, text) ==
    \E w \in alternatives : ContainsIgnoreCase(text, w)

\* ----------------------------------------- self-healing.ts: built-in patterns
NetworkPattern ==
    { <<"n","e","t","w","o","r","k">>, <<"t","i","m","e","o","u","t">>,
      <<"E","C","O","N","N","R","E","F","U","S","E","D">>,
      <<"E","T","I","M","E","D","O","U","T">> }
ResourcePattern ==
    { <<"m","e","m","o","r","y">>, <<"E","N","O","M","E","M">>,
      <<"E","M","F","I","L","E">>, <<"t","o","o"," ","m","a","n","y">> }
RateLimitPattern ==
    { <<"r","a","t","e"," ","l","i","m","i","t">>, <<"4","2","9">>,
      <<"t","o","o"," ","m","a","n","y"," ","r","e","q","u","e","s","t","s">> }

\* The strategies registered by the constructor, in the order the sort
\* leaves them; every built-in healingAction resolves to true.  actionThrows
\* tells whether a healingAction throws: "no", "sync" (it throws when it is
\* called) or "async" (the promise it returns rejects).
DefaultStrategies ==
    << [id |-> "network-retry", name |-> "Network Retry", priority |-> HIGH,
        errorPattern |-> NetworkPattern, actionResult |-> TRUE, actionThrows |-> "no"],
       [id |-> "resource-cleanup", name |-> "Resource Cleanup", priority |-> HIGH,
        errorPattern |-> ResourcePattern, actionResult |-> TRUE, actionThrows |-> "no"],
       [id |-> "rate-limit-backoff", name |-> "Rate Limit Backoff", priority |-> MEDIUM,
        errorPattern |-> RateLimitPattern, actionResult |-> TRUE, actionThrows |-> "no"] >>

\* A variant that takes the last matching strategy.
FindStrategy_Last(strategies, errorMessage) ==
    IF \E i \in 1..Len(strategies) : PatternTest(strategies[i].errorPattern, errorMessage)
    THEN CHOOSE i \in 1..Len(strategies) :
            /\ PatternTest(strategies[i].errorPattern, errorMessage)
            /\ \A k \in (i + 1)..Len(strategies) :
                   ~PatternTest(strategies[k].errorPattern, errorMessage)
    ELSE 0

\* strategies.find(s => s.errorPattern.test(errorMessage)): index of the
\* first matching strategy, 0 when none matches.
FindStrategy(strategies, errorMessage) ==
    IF \E i \in 1..Len(strategies) : PatternTest(strategies[i].errorPattern, errorMessage)
    THEN CHOOSE i \in 1..Len(strategies) :
            /\ PatternTest(strategies[i].errorPattern, errorMessage)
            /\ \A k \in 1..(i - 1) : ~PatternTest(strategies[k].errorPattern, errorMessage)
    ELSE 0

\* The boolean SelfHealingSystem.heal resolves to for an error message.
HealOutcome(strategies, errorMessage) ==
    LET i == FindStrategy(strategies, errorMessage)
    IN  IF i = 0 THEN FALSE ELSE strategies[i].actionResult


\* ------------------------------------------------ self-healing.ts: the system
HistoryLimit == 100

RateLimitExceeded ==
    <<"R","a","t","e"," ","l","i","m","i","t"," ","e","x","c","e","e","d","e","d">>
TooManyRequests ==
    <<"t","o","o"," ","m","a","n","y"," ","r","e","q","u","e","s","t","s">>

\* Messages of the errors handed to heal; the empty one makes heal fall back
\* on String(error).
HealMessages ==
    {<<>>, TestError, NetworkTimeoutError, RateLimitExceeded, TooManyRequests}

\* error.message || String(error): String of an Error with an empty message
\* is its name.
ErrorText(message) ==
    IF message = <<>> THEN <<"E","r","r","o","r">> ELSE message

\* Strategies a caller registers: a CRITICAL one whose action throws when it
\* is called, a HIGH one whose action rejects, a LOW one that resolves false.
CustomStrategies ==
    { [id |-> "critical-priority", name |-> "Critical Priority", priority |-> CRITICAL,
       errorPattern |-> {<<"t","e","s","t">>},
       actionResult |-> FALSE, actionThrows |-> "sync"],
      [id |-> "custom-strategy", name |-> "Custom Strategy", priority |-> HIGH,
       errorPattern |-> {<<"e","r","r","o","r">>},
       actionResult |-> FALSE, actionThrows |-> "async"],
      [id |-> "low-priority", name |-> "Low Priority", priority |-> LOW,
       errorPattern |-> {<<"t","e","s","t">>},
       actionResult |-> FALSE, actionThrows |-> "no"] }

\* priorityOrder of registerStrategy's comparator.
priorityOrder(priority) ==
    CASE priority = CRITICAL -> 0
      [] priority = HIGH -> 1
      [] priority = MEDIUM -> 2
      [] priority = LOW -> 3

\* Array.prototype.sort by priorityOrder: the sort is stable, so each rank
\* keeps the order its strategies had in the list.
SortByPriority(list) ==
    LET OfRank(r) == SelectSeq(list, LAMBDA s : priorityOrder(s.priority) = r)
    IN  OfRank(0) \o OfRank(1) \o OfRank(2) \o OfRank(3)

\* A variant that appends without sorting.
registerStrategy_Unsorted(list, strategy) == Append(list, strategy)

\* registerStrategy: push, then sort.
registerStrategy(list, strategy) == SortByPriority(Append(list, strategy))

\* The strategy list the constructor leaves: the three built-ins registered
\* one after the other.
initializeDefaultStrategies ==
    registerStrategy(
        registerStrategy(
            registerStrategy(<<>>, DefaultStrategies[1]),
            DefaultStrategies[2]),
        DefaultStrategies[3])

\* An attempt of the history; id stands for the generated identifier.
HealingAttempt(n, errorType, strategyUsed, success) ==
    [id |-> n, errorType |-> errorType, strategyUsed |-> strategyUsed,
     success |-> success]

\* A variant that never evicts.
recordAttempt_NoEviction(history, n, errorType, strategyUsed, success) ==
    Append(history, HealingAttempt(n, errorType, strategyUsed, success))

\* recordAttempt: push, then shift once the history is longer than 100.
recordAttempt(history, n, errorType, strategyUsed, success) ==
    LET pushed == Append(history, HealingAttempt(n, errorType, strategyUsed, success))
    IN  IF Len(pushed) > HistoryLimit THEN Tail(pushed) ELSE pushed

\* ------------------------------------------- numbers: IEEE 754 binary64
\* A JavaScript number is a double.  Where a value is fed back into later
\* arithmetic (the running successRate of a learned pattern, the success
\* rate of the healing history) it is computed here with the rounding of
\* the language: every operation yields the double nearest to the exact
\* result, ties to the even mantissa.
\*
\* Natural numbers of any size are sequences of limbs, least significant
\* first, without leading zero limbs; <<>> is zero.
LimbBits == 15
LimbBase == 32768
MantissaBits == 53

Min(a, b) == IF a < b THEN a ELSE b

Pow2Table == <<1, 2, 4, 8, 16, 32, 64, 128, 256, 512, 1024, 2048, 4096, 8192,
               16384, 32768>>
Pow2(k) == Pow2Table[k + 1]

RECURSIVE Normalize(_)
Normalize(N) ==
    IF N = <<>> THEN <<>>
    ELSE IF N[Len(N)] = 0 THEN Normalize(SubSeq(N, 1, Len(N) - 1))
    ELSE N

RECURSIVE NatOfInt(_)
NatOfInt(n) ==
    IF n = 0 THEN <<>> ELSE <<n % LimbBase>> \o NatOfInt(n \div LimbBase)

Zeros(count) == [i \in 1..count |-> 0]
TailOrEmpty(N) == IF N = <<>> THEN <<>> ELSE Tail(N)
HeadOrZero(N) == IF N = <<>> THEN 0 ELSE Head(N)

RECURSIVE MulCarry(_, _, _)
MulCarry(N, n, carry) ==
    IF N = <<>> THEN NatOfInt(carry)
    ELSE LET t == Head(N) * n + carry
         IN  <<t % LimbBase>> \o MulCarry(Tail(N), n, t \div LimbBase)

\* N * n for a factor n <= LimbBase.
MulSmall(N, n) == Normalize(MulCarry(N, n, 0))

RECURSIVE DivRem(_, _)
DivRem(N, d) ==
    IF N = <<>> THEN [q |-> <<>>, r |-> 0]
    ELSE LET high == DivRem(Tail(N), d)
             t == high.r * LimbBase + Head(N)
         IN  [q |-> <<t \div d>> \o high.q, r |-> t % d]

\* Quotient and remainder of N by a divisor d <= LimbBase.
DivSmall(N, d) ==
    LET qr == DivRem(N, d) IN [q |-> Normalize(qr.q), r |-> qr.r]

RECURSIVE AddCarry(_, _, _)
AddCarry(A, B, carry) ==
    IF A = <<>> /\ B = <<>>
    THEN IF carry = 0 THEN <<>> ELSE <<carry>>
    ELSE LET t == HeadOrZero(A) + HeadOrZero(B) + carry
         IN  <<t % LimbBase>> \o AddCarry(TailOrEmpty(A), TailOrEmpty(B), t \div LimbBase)

AddNat(A, B) == AddCarry(A, B, 0)

RECURSIVE SubBorrow(_, _, _)
SubBorrow(A, B, borrow) ==
    IF A = <<>> THEN <<>>
    ELSE LET t == Head(A) - HeadOrZero(B) - borrow
         IN  IF t < 0
             THEN <<t + LimbBase>> \o SubBorrow(Tail(A), TailOrEmpty(B), 1)
             ELSE <<t>> \o SubBorrow(Tail(A), TailOrEmpty(B), 0)

\* A - B for A >= B.
SubNat(A, B) == Normalize(SubBorrow(A, B, 0))

RECURSIVE CompareLimbs(_, _, _)
CompareLimbs(A, B, i) ==
    IF i = 0 THEN 0
    ELSE IF A[i] < B[i] THEN -1
    ELSE IF A[i] > B[i] THEN 1
    ELSE CompareLimbs(A, B, i - 1)

\* -1, 0 or 1 as A is less than, equal to or greater than B.
CompareNat(A, B) ==
    IF Len(A) < Len(B) THEN -1
    ELSE IF Len(A) > Len(B) THEN 1
    ELSE CompareLimbs(A, B, Len(A))

\* Number of bits of N.
BitLength(N) ==
    IF N = <<>> THEN 0
    ELSE LimbBits * (Len(N) - 1)
           + Cardinality({k \in 0..(LimbBits - 1) : Pow2(k) <= N[Len(N)]})

\* N * 2^k and floor(N / 2^k).
ShiftLeft(N, k) ==
    IF N = <<>> THEN <<>>
    ELSE MulSmall(Zeros(k \div LimbBits) \o N, Pow2(k % LimbBits))
ShiftRight(N, k) ==
    IF k \div LimbBits >= Len(N) THEN <<>>
    ELSE DivSmall(SubSeq(N, k \div LimbBits + 1, Len(N)), Pow2(k % LimbBits)).q

\* Bit k of N (bit 0 is the least significant), and whether a bit below
\* bit k is set.
BitOf(N, k) ==
    IF k \div LimbBits >= Len(N) THEN 0
    ELSE (N[k \div LimbBits + 1] \div Pow2(k % LimbBits)) % 2
LowBitsSet(N, k) ==
    \/ \E i \in 1..Min(k \div LimbBits, Len(N)) : N[i] # 0
    \/ /\ k \div LimbBits < Len(N)
       /\ N[k \div LimbBits + 1] % Pow2(k % LimbBits) # 0

\* A double that is not negative: [m, e] stands for m * 2^e with m of
\* exactly 53 bits, and ZeroNumber for 0.
ZeroNumber == [m |-> <<>>, e |-> 0]

\* The double nearest to N * 2^e; inexact tells that the exact value lies
\* strictly between N * 2^e and (N + 1) * 2^e.
RoundToNumber(N, e, inexact) ==
    LET L == BitLength(N)
        k == L - MantissaBits
    IN  IF N = <<>> THEN ZeroNumber
        ELSE IF k <= 0 THEN [m |-> ShiftLeft(N, 0 - k), e |-> e + k]
        ELSE LET Q == ShiftRight(N, k)
                 sticky == inexact \/ LowBitsSet(N, k - 1)
                 up == BitOf(N, k - 1) = 1 /\ (sticky \/ BitOf(Q, 0) = 1)
                 R == IF up THEN AddNat(Q, <<1>>) ELSE Q
             IN  IF BitLength(R) > MantissaBits
                 THEN [m |-> ShiftRight(R, 1), e |-> e + k + 1]
                 ELSE [m |-> R, e |-> e + k]

\* An integer as a double.
NumberOfInt(n) == RoundToNumber(NatOfInt(n), 0, FALSE)

\* x * n for an integer n.
NumberTimes(x, n) == RoundToNumber(MulSmall(x.m, n), x.e, FALSE)

\* x / d for an integer d < 2^14: one more limb of the dividend gives the
\* quotient the bits the rounding needs.
NumberOver(x, d) ==
    LET qr == DivSmall(ShiftLeft(x.m, LimbBits), d)
    IN  RoundToNumber(qr.q, x.e - LimbBits, qr.r # 0)

\* Both mantissas over the smaller of the two exponents.
Aligned(x, y) ==
    LET e == Min(x.e, y.e)
    IN  [x |-> ShiftLeft(x.m, x.e - e), y |-> ShiftLeft(y.m, y.e - e), e |-> e]

\* x + y, and x - y for x >= y.
NumberPlus(x, y) ==
    IF x = ZeroNumber THEN y
    ELSE IF y = ZeroNumber THEN x
    ELSE LET a == Aligned(x, y) IN RoundToNumber(AddNat(a.x, a.y), a.e, FALSE)
NumberMinus(x, y) ==
    IF y = ZeroNumber THEN x
    ELSE LET a == Aligned(x, y) IN RoundToNumber(SubNat(a.x, a.y), a.e, FALSE)

\* -1, 0 or 1 as x is less than, equal to or greater than y.
NumberCompare(x, y) ==
    IF x = ZeroNumber THEN (IF y = ZeroNumber THEN 0 ELSE -1)
    ELSE IF y = ZeroNumber THEN 1
    ELSE LET a == Aligned(x, y) IN CompareNat(a.x, a.y)
AtLeast(x, y) == NumberCompare(x, y) >= 0
LessThan(x, y) == NumberCompare(x, y) < 0

\* The double of the literal n/d, the double nearest to the fraction.
NumberOfRatio(n, d) == NumberOver(NumberOfInt(n), d)

\* ------------------------------------------------------------------ state
VARIABLES
    config,           \* Protocol110System.config (resolved by the constructor)
    metrics,          \* Protocol110System.metrics
    enhancements,     \* EnhancementTracker.enhancements
    recommendations,  \* RecommendationEngine.recommendations
    nextId,           \* number of identifiers randomUUID has handed out
    now,              \* Date.now()
    startTime,        \* Protocol110System.startTime
    calls,            \* the execute calls: where each one stands
    settled,          \* the execute call that settled in the last step, and with what
    observed,         \* what getMetrics/getHealthCheck returned in the last step
    strategies,       \* SelfHealingSystem.strategies
    healingHistory,   \* SelfHealingSystem.healingHistory
    heals,            \* the heal calls made so far: where each one stands
    attempts,         \* number of attempts recordAttempt has recorded
    healed,           \* what the heal call that ran in the last step did
    healingRate,      \* what getSuccessRate returned in the last step
    patterns,         \* SelfLearningSystem.patterns, in insertion order
    insights,         \* SelfLearningSystem.insights
    tally,            \* per name: the observations recorded since construction or clear
    learned,          \* what the SelfLearningSystem call of the last step returned
    adapters,         \* IntegrationManager.adapters, in insertion order
    integrated        \* what the adapter or manager call of the last step did

\* The state of the Protocol110System and of the SelfHealingSystem: two
\* objects that never call each other.
protocolVars == <<config, metrics, enhancements, recommendations, nextId, now,
                  startTime, calls, settled, observed>>
healingVars == <<strategies, healingHistory, heals, attempts, healed, healingRate>>
learningVars == <<patterns, insights, tally, learned>>
integrationVars == <<adapters, integrated>>

\* What a Protocol110System leaves alone.
otherSystems == <<healingVars, learningVars, integrationVars>>

vars == <<config, metrics, enhancements, recommendations, nextId, now,
          startTime, calls, settled, observed,
          strategies, healingHistory, heals, attempts, healed, healingRate,
          patterns, insights, tally, learned, adapters, integrated>>

Calls == 1..MaxCalls

\* operationName of the execute call made through slot c.
OperationName(c) == <<"op", c>>

\* An optional constructor argument: <<>> when absent, <<v>> when given.
Optional(S) == {<<>>} \cup {<<v>> : v \in S}

\* a ?? b
Coalesce(opt, default) == IF opt = <<>> THEN default ELSE opt[1]

\* a || b for a number: 0 and absent are falsy.
OrDefault(opt, default) ==
    IF opt = <<>> \/ opt[1] = 0 THEN default ELSE opt[1]

\* The values of maxRecommendations the constructor is given.
MaxRecommendationsInputs == {0, 1, 2}

\* ---------------------------------------------------------------- core.ts
\* EnhancementTracker.getAverageEnhancementLevel, as the fraction sum/count.
SumImpact(enh) ==
    LET Sum[i \in 0..Len(enh)] == IF i = 0 THEN 0 ELSE Sum[i - 1] + enh[i].impact
    IN  Sum[Len(enh)]

\* A variant whose average of no enhancements is 0.
getAverageEnhancementLevel_ZeroWhenEmpty(enh) ==
    IF Len(enh) = 0 THEN [num |-> 0, den |-> 1]
    ELSE [num |-> SumImpact(enh), den |-> Len(enh)]

getAverageEnhancementLevel(enh) ==
    IF Len(enh) = 0 THEN [num |-> BASELINE, den |-> 1]
    ELSE [num |-> SumImpact(enh), den |-> Len(enh)]

\* The record EnhancementTracker.createEnhancement builds and pushes.
createEnhancement(id, description, impact, priority) ==
    [id |-> id, description |-> description, impact |-> impact, priority |-> priority]

\* The record RecommendationEngine.createRecommendation builds and pushes.
createRecommendation(id, title, operationName, priority, estimatedImpact, category) ==
    [id |-> id, title |-> title, operationName |-> operationName,
     priority |-> priority, estimatedImpact |-> estimatedImpact,
     category |-> category, actionable |-> TRUE]

\* A variant that reports ENHANCED for every success.
ResultStatus_AlwaysEnhanced(enh) == STATUS_ENHANCED

\* enhancements.length > 0 ? ENHANCED : SUCCESS
ResultStatus(enh) == IF Len(enh) > 0 THEN STATUS_ENHANCED ELSE STATUS_SUCCESS

createSuccessResult(data, enh, recs) ==
    [kind |-> "returned", success |-> TRUE, status |-> ResultStatus(enh),
     data |-> data, enhancements |-> enh, recommendations |-> recs,
     error |-> <<>>]

\* The data of an operation that resolved with value kind v.
ValueData(v) == [tag |-> v, healed |-> FALSE, originalError |-> <<>>]
\* { healed: true, originalError: String(error) }
HealedData(message) ==
    [tag |-> "object", healed |-> TRUE, originalError |-> StringOfError(message)]
NoData == [tag |-> "none", healed |-> FALSE, originalError |-> <<>>]

NoResult ==
    [kind |-> "none", success |-> FALSE, status |-> "pending", data |-> NoData,
     enhancements |-> <<>>, recommendations |-> <<>>, error |-> <<>>]

\* execute's promise rejected with the error.
Raised(message) == [NoResult EXCEPT !.kind = "raised", !.error = message]

\* ------------------------------------------------------------ protocol.ts
initializeMetrics ==
    [totalOperations |-> 0, successfulOperations |-> 0, failedOperations |-> 0,
     enhancedOperations |-> 0,
     averageEnhancementLevel |-> [num |-> BASELINE, den |-> 1],
     totalRecommendations |-> 0, implementedRecommendations |-> 0,
     uptime |-> 0, lastUpdate |-> 0]

ProtocolConfig(selfHealing, continuousImprovement, maxRec) ==
    [enableSelfHealing |-> Coalesce(selfHealing, TRUE),
     enableContinuousImprovement |-> Coalesce(continuousImprovement, TRUE),
     maxRecommendations |-> OrDefault(maxRec, DefaultMaxRecommendations)]

\* The values an operation resolves with.
OperationValues == {"value", "null", "undefined"}

\* A variant that tests for null only.
IsNullish_OnlyNull(v) == v = "null"

\* result === null || result === undefined
IsNullish(v) == v \in {"null", "undefined"}

\* array.slice(0, n) for n >= 0
Slice(s, n) == SubSeq(s, 1, IF n < Len(s) THEN n ELSE Len(s))

\* The enhancements applyEnhancements creates (and pushes to the tracker),
\* the first with identifier id.
applyEnhancements(cfg, operationName, v, id) ==
    IF ~cfg.enableContinuousImprovement THEN <<>>
    ELSE <<createEnhancement(id, <<"Enhanced", operationName>>, ENHANCED, MEDIUM)>>
         \o (IF ~IsNullish(v)
             THEN <<createEnhancement(id + 1, <<"Result validation">>, EXCEPTIONAL, LOW)>>
             ELSE <<>>)

\* A variant that ignores enableContinuousImprovement.
CreatedRecommendations_Always(cfg, operationName, id) ==
    << createRecommendation(id, "Optimize Performance", operationName,
                            MEDIUM, 75, "performance"),
       createRecommendation(id + 1, "Enhanced Monitoring", operationName,
                            LOW, 50, "monitoring") >>

\* The recommendations generateRecommendations creates (and pushes to the
\* engine), the first with identifier id.
CreatedRecommendations(cfg, operationName, id) ==
    IF ~cfg.enableContinuousImprovement THEN <<>>
    ELSE << createRecommendation(id, "Optimize Performance", operationName,
                                 MEDIUM, 75, "performance"),
            createRecommendation(id + 1, "Enhanced Monitoring", operationName,
                                 LOW, 50, "monitoring") >>

\* A variant that returns every created recommendation, untruncated.
generateRecommendations_NoSlice(cfg, operationName, id) ==
    CreatedRecommendations(cfg, operationName, id)

\* What generateRecommendations returns.
generateRecommendations(cfg, operationName, id) ==
    IF ~cfg.enableContinuousImprovement THEN <<>>
    ELSE Slice(CreatedRecommendations(cfg, operationName, id), cfg.maxRecommendations)

\* A variant carrying the priority and impact of the performance recommendation.
HealingRecommendation_Medium(operationName, id) ==
    createRecommendation(id, "Self-Healing Action", operationName, MEDIUM, 75, "self-healing")

\* A variant with the priority and the impact above those of the other
\* recommendations.
HealingRecommendation_Critical(operationName, id) ==
    createRecommendation(id, "Self-Healing Action", operationName, CRITICAL, 100,
                         "self-healing")

\* The recommendation attemptSelfHealing creates (and pushes to the engine).
HealingRecommendation(operationName, id) ==
    createRecommendation(id, "Self-Healing Action", operationName, HIGH, 90, "self-healing")

\* createFailureResult(error, recommendations)
createFailureResult(message, recs) ==
    [kind |-> "returned", success |-> FALSE, status |-> STATUS_FAILED,
     data |-> [tag |-> "error", healed |-> FALSE, originalError |-> message],
     enhancements |-> <<>>, recommendations |-> recs, error |-> <<>>]

\* A variant that asks the healing engine and reports its verdict.
attemptSelfHealing_Delegating(message, operationName, id) ==
    IF HealOutcome(DefaultStrategies, message)
    THEN createSuccessResult(HealedData(message), <<>>,
                             <<HealingRecommendation(operationName, id)>>)
    ELSE createFailureResult(message, <<>>)

\* A variant that returns the healed result without its recommendation.
attemptSelfHealing_NoRecommendation(message, operationName, id) ==
    createSuccessResult(HealedData(message), <<>>, <<>>)

\* What attemptSelfHealing resolves with.
attemptSelfHealing(message, operationName, id) ==
    createSuccessResult(HealedData(message), <<>>, <<HealingRecommendation(operationName, id)>>)

updateMetrics(m, enh, t, start) ==
    [m EXCEPT !.uptime = t - start, !.lastUpdate = t,
              !.averageEnhancementLevel = getAverageEnhancementLevel(enh)]

\* A variant with a strict comparison.
RateAtLeast_Strict(rate, threshold) == rate.num > threshold * rate.den

\* A variant that looks at the success rate alone.
IsHealthy_RateOnly(successRate, uptime) ==
    successRate.num >= HealthyThreshold * successRate.den

\* A variant that looks at the uptime alone.
IsHealthy_UptimeOnly(successRate, uptime) == uptime > 0

\* successRate >= 80, the rate being the fraction num/den.
RateAtLeast(rate, threshold) == rate.num >= threshold * rate.den

IsHealthy(successRate, uptime) ==
    RateAtLeast(successRate, HealthyThreshold) /\ uptime > 0

\* this.metrics.totalOperations || 1
TotalOps(m) == IF m.totalOperations = 0 THEN 1 ELSE m.totalOperations

\* What getHealthCheck returns for the (already updated) metrics m.
HealthCheck(m) ==
    LET successRate == [num |-> m.successfulOperations * 100, den |-> TotalOps(m)]
        enhancementRate == [num |-> m.enhancedOperations * 100, den |-> TotalOps(m)]
        healthy == IsHealthy(successRate, m.uptime)
    IN  [kind |-> "health", healthy |-> healthy,
         status |-> IF healthy THEN "healthy" ELSE "degraded",
         uptime |-> m.uptime, enhancementRate |-> enhancementRate,
         successRate |-> successRate,
         issues |-> IF healthy THEN <<>> ELSE <<"Success rate below threshold">>]

NoCall == [pc |-> "idle", error |-> <<>>, healingResult |-> NoResult]

\* No execute call settled, no query returned, in the last step.
NotSettled == [call |-> 0, result |-> NoResult]
NotObserved == [kind |-> "none"]

\* Call c settled with result r.
Settle(c, r) == [call |-> c, result |-> r]

\* ----------------------------------- self-healing.ts: SelfLearningSystem
PatternNames == {"high-success", "low-success"}

\* No SelfLearningSystem call ran in the last step.
NotLearned == [kind |-> "none"]

\* Nothing observed under a name.
NoTally == [seen |-> 0, succeeded |-> 0]

InitLearning ==
    /\ patterns = <<>>
    /\ insights = <<>>
    /\ tally = [name \in PatternNames |-> NoTally]
    /\ learned = NotLearned

\* No adapter or manager call ran in the last step.
NotIntegrated == [op |-> "none"]

\* new IntegrationManager(): no adapter is registered.
InitIntegration ==
    /\ adapters = <<>>
    /\ integrated = NotIntegrated

\* No heal call ran in the last step.
NotHealed ==
    [call |-> 0, errorMessage |-> <<>>, invoked |-> <<>>, returned |-> <<>>,
     raised |-> FALSE]

\* Heal call k ran in the last step: the healing actions it invoked, and
\* what it settled with if it finished.
Healed(k, errorMessage, invoked, returned, raised) ==
    [call |-> k, errorMessage |-> errorMessage, invoked |-> invoked,
     returned |-> returned, raised |-> raised]

InitHealing ==
    /\ strategies = initializeDefaultStrategies
    /\ healingHistory = <<>>
    /\ heals = <<>>
    /\ attempts = 0
    /\ healed = NotHealed
    /\ healingRate = <<>>

Init ==
    /\ \E sh \in Optional(BOOLEAN), ci \in Optional(BOOLEAN),
          mr \in Optional(MaxRecommendationsInputs) :
          config = ProtocolConfig(sh, ci, mr)
    /\ metrics = initializeMetrics
    /\ enhancements = <<>>
    /\ recommendations = <<>>
    /\ nextId = 1
    /\ now = 0
    /\ startTime = 0
    /\ calls = [c \in Calls |-> NoCall]
    /\ settled = NotSettled
    /\ observed = NotObserved
    /\ InitHealing
    /\ InitLearning
    /\ InitIntegration

\* A variant whose increment is lost.
CountFailure_Lost(m) == m

\* A variant that books the failure as a success.
CountFailure_AsSuccess(m) == [m EXCEPT !.successfulOperations = @ + 1]

\* this.metrics.failedOperations++
CountFailure(m) == [m EXCEPT !.failedOperations = @ + 1]

\* A variant that counts the healing recommendation in totalRecommendations.
CatchBranch_CountsRecommendation(c, m, message) ==
    /\ enhancements' = enhancements
    /\ IF config.enableSelfHealing
       THEN /\ metrics' = [updateMetrics(CountFailure(m), enhancements, now, startTime)
                              EXCEPT !.totalRecommendations = @ + 1]
            /\ recommendations' =
                   Append(recommendations, HealingRecommendation(OperationName(c), nextId))
            /\ nextId' = nextId + 1
            /\ calls' = [calls EXCEPT ![c] =
                   [pc |-> "healing", error |-> message,
                    healingResult |-> attemptSelfHealing(message, OperationName(c), nextId)]]
            /\ settled' = NotSettled
       ELSE /\ metrics' = updateMetrics(CountFailure(m), enhancements, now, startTime)
            /\ UNCHANGED <<recommendations, nextId>>
            /\ calls' = [calls EXCEPT ![c] = NoCall]
            /\ settled' = Settle(c, Raised(message))

\* The catch branch of execute for call c, entered with metrics m.
CatchBranch(c, m, message) ==
    /\ metrics' = updateMetrics(CountFailure(m), enhancements, now, startTime)
    /\ enhancements' = enhancements
    /\ IF config.enableSelfHealing
       THEN /\ recommendations' =
                   Append(recommendations, HealingRecommendation(OperationName(c), nextId))
            /\ nextId' = nextId + 1
            /\ calls' = [calls EXCEPT ![c] =
                   [pc |-> "healing", error |-> message,
                    healingResult |-> attemptSelfHealing(message, OperationName(c), nextId)]]
            /\ settled' = NotSettled
       ELSE /\ UNCHANGED <<recommendations, nextId>>
            /\ calls' = [calls EXCEPT ![c] = NoCall]
            /\ settled' = Settle(c, Raised(message))

\* A variant that forgets to count the call.
CountOperation_Missing(m) == m

\* this.metrics.totalOperations++
CountOperation(m) == [m EXCEPT !.totalOperations = @ + 1]

\* execute up to its await: the operation is called and returns a promise
\* (or a plain value).
ExecuteStart(c, limit) ==
    /\ calls[c].pc = "idle"
    /\ metrics.totalOperations < limit
    /\ metrics' = CountOperation(metrics)
    /\ calls' = [calls EXCEPT ![c] = [NoCall EXCEPT !.pc = "awaiting"]]
    /\ settled' = NotSettled
    /\ observed' = NotObserved
    /\ UNCHANGED <<otherSystems, config, enhancements, recommendations, nextId, now, startTime>>

\* execute when the operation throws synchronously: the catch branch runs
\* in the same turn.
ExecuteStartThrows(c, limit, message) ==
    /\ calls[c].pc = "idle"
    /\ metrics.totalOperations < limit
    /\ CatchBranch(c, CountOperation(metrics), message)
    /\ observed' = NotObserved
    /\ UNCHANGED <<otherSystems, config, now, startTime>>

\* The awaited operation resolved with v: the rest of the try block.
OperationResolves(c, v) ==
    /\ calls[c].pc = "awaiting"
    /\    LET enh == applyEnhancements(config, OperationName(c), v, nextId)
              created == CreatedRecommendations(config, OperationName(c), nextId + Len(enh))
              recs == generateRecommendations(config, OperationName(c), nextId + Len(enh))
              m1 == [metrics EXCEPT
                        !.totalRecommendations = @ + Len(created),
                        !.successfulOperations = @ + 1,
                        !.enhancedOperations = IF Len(enh) > 0 THEN @ + 1 ELSE @]
          IN  /\ enhancements' = enhancements \o enh
              /\ recommendations' = recommendations \o created
              /\ nextId' = nextId + Len(enh) + Len(created)
              /\ metrics' = updateMetrics(m1, enhancements', now, startTime)
              /\ settled' = Settle(c, createSuccessResult(ValueData(v), enh, recs))
    /\ calls' = [calls EXCEPT ![c] = NoCall]
    /\ observed' = NotObserved
    /\ UNCHANGED <<otherSystems, config, now, startTime>>

\* The awaited operation rejected: the catch block, up to the await of
\* attemptSelfHealing.
OperationRejects(c, message) ==
    /\ calls[c].pc = "awaiting"
    /\ CatchBranch(c, metrics, message)
    /\ observed' = NotObserved
    /\ UNCHANGED <<otherSystems, config, now, startTime>>

\* A variant that books the failure only when the await of
\* attemptSelfHealing resumes.
HealingResumes_CountsLate(c) ==
    /\ calls[c].pc = "healing"
    /\ settled' = Settle(c, calls[c].healingResult)
    /\ calls' = [calls EXCEPT ![c] = NoCall]
    /\ metrics' = CountFailure(metrics)
    /\ observed' = NotObserved
    /\ UNCHANGED <<otherSystems, config, enhancements, recommendations, nextId, now, startTime>>

\* A variant in which the await of attemptSelfHealing is abandoned: the
\* call is left suspended.
HealingResumes_Abandoned(c) ==
    /\ calls[c].pc = "healing"
    /\ calls' = [calls EXCEPT ![c].healingResult = NoResult]
    /\ settled' = NotSettled
    /\ observed' = NotObserved
    /\ UNCHANGED <<otherSystems, config, metrics, enhancements, recommendations, nextId, now, startTime>>

\* The await of attemptSelfHealing resumes: return the healing result when
\* it reports success, rethrow the original error otherwise.
HealingResumes(c) ==
    /\ calls[c].pc = "healing"
    /\ settled' = Settle(c, IF calls[c].healingResult.success
                             THEN calls[c].healingResult
                             ELSE Raised(calls[c].error))
    /\ calls' = [calls EXCEPT ![c] = NoCall]
    /\ observed' = NotObserved
    /\ UNCHANGED <<otherSystems, config, metrics, enhancements, recommendations, nextId, now, startTime>>

GetMetrics ==
    /\ metrics' = updateMetrics(metrics, enhancements, now, startTime)
    /\ observed' = [kind |-> "metrics", metrics |-> metrics']
    /\ settled' = NotSettled
    /\ UNCHANGED <<otherSystems, config, enhancements, recommendations, nextId, now, startTime,
                   calls>>

GetHealthCheck ==
    /\ metrics' = updateMetrics(metrics, enhancements, now, startTime)
    /\ observed' = HealthCheck(metrics')
    /\ settled' = NotSettled
    /\ UNCHANGED <<otherSystems, config, enhancements, recommendations, nextId, now, startTime,
                   calls>>

\* The clock advances by a millisecond.
Tick ==
    /\ now < MaxTime
    /\ now' = now + 1
    /\ observed' = NotObserved
    /\ settled' = NotSettled
    /\ UNCHANGED <<otherSystems, config, metrics, enhancements, recommendations, nextId,
                   startTime, calls>>

Next ==
    \/ \E c \in Calls : ExecuteStart(c, MaxOps)
    \/ \E c \in Calls, message \in ErrorMessages : ExecuteStartThrows(c, MaxOps, message)
    \/ \E c \in Calls, v \in OperationValues : OperationResolves(c, v)
    \/ \E c \in Calls, message \in ErrorMessages : OperationRejects(c, message)
    \/ \E c \in Calls : HealingResumes(c)
    \/ GetMetrics
    \/ GetHealthCheck
    \/ Tick

Spec == Init /\ [][Next]_vars

\* One caller that awaits each execute call before it makes the next; its
\* operations resolve with a value or reject with 'Test error'.
NextSequential ==
    \/ (\A c \in Calls : calls[c].pc = "idle") /\ ExecuteStart(1, MaxSequentialOps)
    \/ OperationResolves(1, "value")
    \/ OperationRejects(1, TestError)
    \/ HealingResumes(1)
    \/ GetMetrics
    \/ GetHealthCheck
    \/ Tick

SpecSequential == Init /\ [][NextSequential]_vars

\* The same caller on a running event loop: attemptSelfHealing awaits nothing
\* that can stay pending, so the await of it in execute resumes. Nothing
\* makes the caller's operation settle.
SpecSequentialFair ==
    Init /\ [][NextSequential]_vars /\ WF_vars(HealingResumes(1))

\* ------------------------------------------- execute with a failing logger
\* The logger calls of execute and attemptSelfHealing, by source line.
LogPoints == {"L71", "L93", "L104", "L203", "L215", "L223"}

\* Message of the error a failing logger call throws.
LoggerError == <<"l","o","g"," ","f","a","i","l","e","d">>

\* The operation argument: it returns a promise (or a value), or throws
\* synchronously with a message.
Operations == {<<>>} \cup {<<message>> : message \in ErrorMessages}

\* The catch block of execute for call c, entered with error err, metrics m,
\* ledgers enh and recs and next identifier id; the logger calls at the
\* points of F throw. What the turn leaves behind.
CatchWithLogging(c, m, enh, recs, id, err, F) ==
    LET m1 == updateMetrics(CountFailure(m), enh, now, startTime)
        rec == HealingRecommendation(OperationName(c), id)
        base == [metrics |-> m1, enhancements |-> enh, recommendations |-> recs,
                 nextId |-> id, call |-> NoCall, settled |-> NotSettled]
        Suspended(r) == [pc |-> "healing", error |-> err, healingResult |-> r]
    IN  IF "L104" \in F
        THEN [base EXCEPT !.settled = Settle(c, Raised(LoggerError))]
        ELSE IF ~config.enableSelfHealing
        THEN [base EXCEPT !.settled = Settle(c, Raised(err))]
        ELSE IF "L203" \in F
        THEN [base EXCEPT !.call = Suspended(Raised(LoggerError))]
        ELSE IF "L215" \in F
        THEN [base EXCEPT !.recommendations = Append(recs, rec),
                          !.nextId = id + 1,
                          !.call = Suspended(Raised(IF "L223" \in F
                                                    THEN LoggerError ELSE err))]
        ELSE [base EXCEPT !.recommendations = Append(recs, rec),
                          !.nextId = id + 1,
                          !.call = Suspended(attemptSelfHealing(err, OperationName(c), id))]

\* The variables take the values a turn of call c leaves behind.
TurnLeaves(c, after) ==
    /\ metrics' = after.metrics
    /\ enhancements' = after.enhancements
    /\ recommendations' = after.recommendations
    /\ nextId' = after.nextId
    /\ calls' = [calls EXCEPT ![c] = after.call]
    /\ settled' = after.settled
    /\ observed' = NotObserved
    /\ UNCHANGED <<otherSystems, config, now, startTime>>

\* First turn of execute: count, log (L71), call the operation.
StartWithLogging(c, limit, op, F) ==
    /\ calls[c].pc = "idle"
    /\ metrics.totalOperations < limit
    /\ LET m0 == CountOperation(metrics)
       IN  IF "L71" \in F
           THEN TurnLeaves(c, CatchWithLogging(c, m0, enhancements, recommendations,
                                               nextId, LoggerError, F))
           ELSE IF op # <<>>
           THEN TurnLeaves(c, CatchWithLogging(c, m0, enhancements, recommendations,
                                               nextId, op[1], F))
           ELSE TurnLeaves(c, [metrics |-> m0, enhancements |-> enhancements,
                               recommendations |-> recommendations, nextId |-> nextId,
                               call |-> [NoCall EXCEPT !.pc = "awaiting"],
                               settled |-> NotSettled])

\* The awaited operation resolved with v: the rest of the try block, with
\* its logger call (L93) after the counters and ledgers are updated.
ResolveWithLogging(c, v, F) ==
    /\ calls[c].pc = "awaiting"
    /\ LET enh == applyEnhancements(config, OperationName(c), v, nextId)
           created == CreatedRecommendations(config, OperationName(c), nextId + Len(enh))
           recs == generateRecommendations(config, OperationName(c), nextId + Len(enh))
           m1 == [metrics EXCEPT
                     !.totalRecommendations = @ + Len(created),
                     !.successfulOperations = @ + 1,
                     !.enhancedOperations = IF Len(enh) > 0 THEN @ + 1 ELSE @]
           enhAfter == enhancements \o enh
           recsAfter == recommendations \o created
           idAfter == nextId + Len(enh) + Len(created)
           m2 == updateMetrics(m1, enhAfter, now, startTime)
       IN  IF "L93" \in F
           THEN TurnLeaves(c, CatchWithLogging(c, m2, enhAfter, recsAfter, idAfter,
                                               LoggerError, F))
           ELSE TurnLeaves(c, [metrics |-> m2, enhancements |-> enhAfter,
                               recommendations |-> recsAfter, nextId |-> idAfter,
                               call |-> NoCall,
                               settled |-> Settle(c, createSuccessResult(ValueData(v), enh, recs))])

\* The awaited operation rejected: the catch block.
RejectWithLogging(c, message, F) ==
    /\ calls[c].pc = "awaiting"
    /\ TurnLeaves(c, CatchWithLogging(c, metrics, enhancements, recommendations,
                                      nextId, message, F))

\* The await of attemptSelfHealing resumes: a rejected promise throws its
\* error out of execute; otherwise as HealingResumes.
ResumeWithLogging(c) ==
    /\ calls[c].pc = "healing"
    /\ settled' = Settle(c, IF calls[c].healingResult.kind = "raised"
                             THEN calls[c].healingResult
                             ELSE IF calls[c].healingResult.success
                             THEN calls[c].healingResult
                             ELSE Raised(calls[c].error))
    /\ calls' = [calls EXCEPT ![c] = NoCall]
    /\ observed' = NotObserved
    /\ UNCHANGED <<otherSystems, config, metrics, enhancements, recommendations, nextId, now, startTime>>

\* The sets of logger calls that throw within one turn (at most two of them).
LoggerFailures == {F \in SUBSET LogPoints : Cardinality(F) <= 2}

NextLogging ==
    \/ \E c \in Calls, op \in Operations, F \in LoggerFailures :
          StartWithLogging(c, MaxOps, op, F)
    \/ \E c \in Calls, v \in OperationValues, F \in LoggerFailures :
          ResolveWithLogging(c, v, F)
    \/ \E c \in Calls, message \in ErrorMessages, F \in LoggerFailures :
          RejectWithLogging(c, message, F)
    \/ \E c \in Calls : ResumeWithLogging(c)
    \/ GetMetrics
    \/ GetHealthCheck
    \/ Tick

SpecLogging == Init /\ [][NextLogging]_vars

\* What a heal call leaves when it finishes: the history, and the boolean
\* its promise resolves to (raised: the promise rejects instead).
HealLeaves(history, returned) ==
    [history |-> history, returned |-> <<returned>>, raised |-> FALSE]

\* A variant that records the failed attempt and lets the exception escape.
healCatch_Rethrows(history, n, errorMessage, strategy) ==
    [history |-> recordAttempt(history, n, errorMessage, strategy.name, FALSE),
     returned |-> <<>>, raised |-> TRUE]

\* heal, the catch block: the action threw.
healCatch(history, n, errorMessage, strategy) ==
    HealLeaves(recordAttempt(history, n, errorMessage, strategy.name, FALSE), FALSE)

\* A variant that returns false without recording anything.
healNoMatch_Silent(history, n, errorMessage) == HealLeaves(history, FALSE)

\* heal when no strategy matches.
healNoMatch(history, n, errorMessage) ==
    HealLeaves(recordAttempt(history, n, errorMessage, "none", FALSE), FALSE)

\* A variant that reports success whatever the action resolved to.
healTry_AlwaysTrue(history, n, errorMessage, strategy, success) ==
    HealLeaves(recordAttempt(history, n, errorMessage, strategy.name, success), TRUE)

\* heal, the try block after the await: the action resolved to success.
healTry(history, n, errorMessage, strategy, success) ==
    HealLeaves(recordAttempt(history, n, errorMessage, strategy.name, success), success)

NoStrategy ==
    [id |-> "", name |-> "", priority |-> LOW, errorPattern |-> {},
     actionResult |-> FALSE, actionThrows |-> "no"]

\* A heal call that has finished, and one that awaits its strategy's action.
DoneHeal == [pc |-> "done", errorMessage |-> <<>>, strategy |-> NoStrategy]
ActingHeal(errorMessage, strategy) ==
    [pc |-> "acting", errorMessage |-> errorMessage, strategy |-> strategy]

\* Heal call k finishes with out.
HealFinishes(k, errorMessage, invoked, out) ==
    /\ healingHistory' = out.history
    /\ attempts' = attempts + 1
    /\ healed' = Healed(k, errorMessage, invoked, out.returned, out.raised)

\* heal up to its await: find the strategy, call its action.
HealStart(message, limit) ==
    /\ Len(heals) < limit
    /\ LET k == Len(heals) + 1
           errorMessage == ErrorText(message)
           i == FindStrategy(strategies, errorMessage)
       IN  IF i = 0
           THEN /\ HealFinishes(k, errorMessage, <<>>,
                                healNoMatch(healingHistory, attempts + 1, errorMessage))
                /\ heals' = Append(heals, DoneHeal)
           ELSE IF strategies[i].actionThrows = "sync"
           THEN /\ HealFinishes(k, errorMessage, <<strategies[i].id>>,
                                healCatch(healingHistory, attempts + 1, errorMessage,
                                          strategies[i]))
                /\ heals' = Append(heals, DoneHeal)
           ELSE /\ heals' = Append(heals, ActingHeal(errorMessage, strategies[i]))
                /\ healed' = Healed(k, errorMessage, <<strategies[i].id>>, <<>>, FALSE)
                /\ UNCHANGED <<healingHistory, attempts>>
    /\ healingRate' = <<>>
    /\ UNCHANGED <<protocolVars, learningVars, integrationVars, strategies>>

\* The awaited healing action of heal call k settles.
HealSettles(k) ==
    /\ k \in 1..Len(heals)
    /\ heals[k].pc = "acting"
    /\ LET strategy == heals[k].strategy
           errorMessage == heals[k].errorMessage
       IN  HealFinishes(k, errorMessage, <<>>,
               IF strategy.actionThrows = "async"
               THEN healCatch(healingHistory, attempts + 1, errorMessage, strategy)
               ELSE healTry(healingHistory, attempts + 1, errorMessage, strategy,
                            strategy.actionResult))
    /\ heals' = [heals EXCEPT ![k] = DoneHeal]
    /\ healingRate' = <<>>
    /\ UNCHANGED <<protocolVars, learningVars, integrationVars, strategies>>

\* registerStrategy called with a caller's strategy.
RegisterStrategy(strategy, limit) ==
    /\ Len(strategies) < Len(DefaultStrategies) + limit
    /\ strategies' = registerStrategy(strategies, strategy)
    /\ healed' = NotHealed
    /\ healingRate' = <<>>
    /\ UNCHANGED <<protocolVars, learningVars, integrationVars, healingHistory, heals, attempts>>

\* A variant that returns the fraction instead of the percentage.
getSuccessRate_Fraction(history) ==
    IF Len(history) = 0 THEN ZeroNumber
    ELSE NumberOver(NumberOfInt(Len(SelectSeq(history, LAMBDA h : h.success))),
                    Len(history))

\* getSuccessRate: (successful / length) * 100, 0 for an empty history.
getSuccessRate(history) ==
    IF Len(history) = 0 THEN ZeroNumber
    ELSE NumberTimes(
             NumberOver(NumberOfInt(Len(SelectSeq(history, LAMBDA h : h.success))),
                        Len(history)),
             100)

GetSuccessRate ==
    /\ healingRate' = <<getSuccessRate(healingHistory)>>
    /\ healed' = NotHealed
    /\ UNCHANGED <<protocolVars, learningVars, integrationVars, strategies, healingHistory, heals,
                   attempts>>

NextHealing ==
    \/ \E message \in HealMessages : HealStart(message, MaxHeals)
    \/ \E k \in 1..MaxHeals : HealSettles(k)
    \/ \E strategy \in CustomStrategies : RegisterStrategy(strategy, MaxRegistrations)

\* A SelfHealingSystem next to a Protocol110System constructed with the
\* default configuration.
InitDefault == Init /\ config = ProtocolConfig(<<>>, <<>>, <<>>)

SpecHealing == InitDefault /\ [][NextHealing]_vars

\* One caller that awaits each heal call before it makes the next, as the
\* history-limit test does.
NextHealingSequential ==
    \/ (\A k \in 1..Len(heals) : heals[k].pc = "done")
          /\ HealStart(NetworkTimeoutError, MaxSequentialHeals)
    \/ HealSettles(Len(heals))

SpecHealingSequential == InitDefault /\ [][NextHealingSequential]_vars

\* The same caller asking for the success rate between its heal calls; its
\* first heal calls may be for an error no strategy matches.
NextHealingRate ==
    \/ /\ \A k \in 1..Len(heals) : heals[k].pc = "done"
       /\ Len(heals) < MaxUnmatchedHeals
       /\ HealStart(TestError, MaxSequentialHeals)
    \/ /\ \A k \in 1..Len(heals) : heals[k].pc = "done"
       /\ HealStart(NetworkTimeoutError, MaxSequentialHeals)
    \/ HealSettles(Len(heals))
    \/ GetSuccessRate

SpecHealingRate == InitDefault /\ [][NextHealingRate]_vars

\* --------------------------- self-healing.ts: SelfLearningSystem, the system
MinFrequency == 5
HighRate == NumberOfRatio(9, 10)
LowRate == NumberOfRatio(1, 2)
DefaultMinSuccessRate == NumberOfRatio(4, 5)
One == NumberOfInt(1)

\* success ? 1 : 0
SuccessBit(success) == IF success THEN 1 ELSE 0

\* Position of the pattern stored under name, 0 when there is none
\* (patterns.get).
PatternIndex(ps, name) ==
    IF \E i \in 1..Len(ps) : ps[i].pattern = name
    THEN CHOOSE i \in 1..Len(ps) : ps[i].pattern = name
    ELSE 0

\* The running update of an existing pattern.  The identifier, lastSeen and
\* the metadata of a pattern are not modelled.
UpdatedPattern(existing, success) ==
    LET totalOccurrences == existing.frequency + 1
        successCount == NumberPlus(NumberTimes(existing.successRate, existing.frequency),
                                   NumberOfInt(SuccessBit(success)))
    IN  [existing EXCEPT !.frequency = totalOccurrences,
                         !.successRate = NumberOver(successCount, totalOccurrences)]

NewPattern(name, success) ==
    [pattern |-> name, frequency |-> 1, successRate |-> NumberOfInt(SuccessBit(success))]

\* recordPattern: the pattern map it leaves.
recordPattern(ps, name, success) ==
    LET i == PatternIndex(ps, name)
    IN  IF i # 0
        THEN [ps EXCEPT ![i] = UpdatedPattern(ps[i], success)]
        ELSE Append(ps, NewPattern(name, success))

\* An insight; its identifier, text and timestamp are not modelled.
Insight(name, category, confidence) ==
    [pattern |-> name, category |-> category, confidence |-> confidence]

\* A variant without the frequency floor.
InsightsOfPattern_NoFloor(p) ==
    IF AtLeast(p.successRate, HighRate)
    THEN <<Insight(p.pattern, "high-performer", p.successRate)>>
    ELSE IF LessThan(p.successRate, LowRate)
    THEN <<Insight(p.pattern, "needs-improvement", NumberMinus(One, p.successRate))>>
    ELSE <<>>

\* The body of the loop of generateInsights: the insights one pattern gives.
InsightsOfPattern(p) ==
    IF AtLeast(p.successRate, HighRate) /\ p.frequency >= MinFrequency
    THEN <<Insight(p.pattern, "high-performer", p.successRate)>>
    ELSE IF LessThan(p.successRate, LowRate) /\ p.frequency >= MinFrequency
    THEN <<Insight(p.pattern, "needs-improvement", NumberMinus(One, p.successRate))>>
    ELSE <<>>

\* newInsights of generateInsights: the loop over the patterns in map order.
RECURSIVE NewInsights(_)
NewInsights(ps) ==
    IF ps = <<>> THEN <<>>
    ELSE InsightsOfPattern(Head(ps)) \o NewInsights(Tail(ps))

\* A variant that keeps only the insights of the last pass.
PushInsights_Replacing(log, newInsights) == newInsights

\* this.insights.push(...newInsights)
PushInsights(log, newInsights) == log \o newInsights

\* A variant that asks for five observations.
getSuccessfulPatterns_WithFloor(ps, minSuccessRate) ==
    SelectSeq(ps, LAMBDA p : AtLeast(p.successRate, minSuccessRate)
                             /\ p.frequency >= MinFrequency)

\* getSuccessfulPatterns(minSuccessRate)
getSuccessfulPatterns(ps, minSuccessRate) ==
    SelectSeq(ps, LAMBDA p : AtLeast(p.successRate, minSuccessRate))

\* The minSuccessRate arguments: none (the default 0.8), 0.5 and 1.
MinSuccessRateInputs == Optional({NumberOfRatio(1, 2), One})

\* The observation counted under name.
Tallied(t, name, success) ==
    [t EXCEPT ![name] = [seen |-> @.seen + 1,
                         succeeded |-> @.succeeded + SuccessBit(success)]]

RECURSIVE SumFrequency(_)
SumFrequency(ps) ==
    IF ps = <<>> THEN 0 ELSE Head(ps).frequency + SumFrequency(Tail(ps))

\* Observations the stored patterns stand for.
TotalFrequency == SumFrequency(patterns)

\* What recordPattern returned: the stored pattern.  afterClear marks a
\* call for a name whose pattern the clear of the step before removed.
Recorded(name, pattern) ==
    [kind |-> "pattern", pattern |-> pattern,
     afterClear |-> learned.kind = "cleared" /\ name \in learned.forgotten]

\* What clear left behind: the names and the number of insights it removed.
Cleared ==
    [kind |-> "cleared",
     forgotten |-> {patterns[i].pattern : i \in 1..Len(patterns)},
     dropped |-> Len(insights)]

\* A variant that generates insights as soon as it has recorded.
RecordPattern_GeneratesInsights(name, success, limit) ==
    /\ TotalFrequency < limit
    /\ patterns' = recordPattern(patterns, name, success)
    /\ tally' = Tallied(tally, name, success)
    /\ learned' = Recorded(name, patterns'[PatternIndex(patterns', name)])
    /\ insights' = PushInsights(insights, NewInsights(patterns'))
    /\ UNCHANGED <<protocolVars, healingVars, integrationVars>>

\* recordPattern(name, success): returns the stored pattern.
RecordPattern(name, success, limit) ==
    /\ TotalFrequency < limit
    /\ patterns' = recordPattern(patterns, name, success)
    /\ tally' = Tallied(tally, name, success)
    /\ learned' = Recorded(name, patterns'[PatternIndex(patterns', name)])
    /\ UNCHANGED <<protocolVars, healingVars, integrationVars, insights>>

\* generateInsights(): returns the insights of this pass.
GenerateInsights(limit) ==
    /\ Len(insights) + Len(patterns) <= limit
    /\ insights' = PushInsights(insights, NewInsights(patterns))
    /\ learned' = [kind |-> "newInsights", insights |-> NewInsights(patterns)]
    /\ UNCHANGED <<protocolVars, healingVars, integrationVars, patterns, tally>>

GetPatterns ==
    /\ learned' = [kind |-> "patterns", patterns |-> patterns]
    /\ UNCHANGED <<protocolVars, healingVars, integrationVars, patterns, insights, tally>>

GetSuccessfulPatterns(minSuccessRate) ==
    /\ learned' = [kind |-> "successful", argument |-> minSuccessRate,
                   patterns |-> getSuccessfulPatterns(
                       patterns, Coalesce(minSuccessRate, DefaultMinSuccessRate))]
    /\ UNCHANGED <<protocolVars, healingVars, integrationVars, patterns, insights, tally>>

GetInsights ==
    /\ learned' = [kind |-> "insights", insights |-> insights]
    /\ UNCHANGED <<protocolVars, healingVars, integrationVars, patterns, insights, tally>>

\* A variant that keeps the insight log.
Clear_KeepsInsights ==
    /\ patterns' = <<>>
    /\ tally' = [name \in PatternNames |-> NoTally]
    /\ learned' = Cleared
    /\ UNCHANGED <<protocolVars, healingVars, integrationVars, insights>>

\* clear()
Clear ==
    /\ patterns' = <<>>
    /\ insights' = <<>>
    /\ tally' = [name \in PatternNames |-> NoTally]
    /\ learned' = Cleared
    /\ UNCHANGED <<protocolVars, healingVars, integrationVars>>

NextLearning ==
    \/ \E name \in PatternNames, success \in BOOLEAN :
          RecordPattern(name, success, MaxObservations)
    \/ GenerateInsights(MaxInsights)
    \/ GetPatterns
    \/ \E minSuccessRate \in MinSuccessRateInputs : GetSuccessfulPatterns(minSuccessRate)
    \/ GetInsights
    \/ Clear

SpecLearning == InitDefault /\ [][NextLearning]_vars

\* One name observed again and again.
NextLearningLong ==
    \E success \in BOOLEAN : RecordPattern("high-success", success, MaxLongObservations)

SpecLearningLong == InitDefault /\ [][NextLearningLong]_vars

\* ------------------------------------------------- core.ts: the two ledgers
\* A list handed to a caller is a new array whose elements are the stored
\* objects themselves: it is modelled as the sequence of the positions the
\* objects have in the ledger.
Positions(list) == [i \in 1..Len(list) |-> i]

\* Array.prototype.filter: a new array holding the objects that pass.
FilterPositions(list, keep(_)) ==
    SelectSeq(Positions(list), LAMBDA i : keep(list[i]))

\* [...this.enhancements]
getEnhancements(enh) == Positions(enh)

getEnhancementsByPriority(enh, priority) ==
    FilterPositions(enh, LAMBDA e : e.priority = priority)

getEnhancementsByImpact(enh, minImpact) ==
    FilterPositions(enh, LAMBDA e : e.impact >= minImpact)

\* [...this.recommendations]
getRecommendations(recs) == Positions(recs)

getRecommendationsByPriority(recs, priority) ==
    FilterPositions(recs, LAMBDA r : r.priority = priority)

getActionableRecommendations(recs) ==
    FilterPositions(recs, LAMBDA r : r.actionable)

\* createRecommendation with its last parameter, actionable, given.
createRecommendationActionable(id, title, priority, estimatedImpact, category, actionable) ==
    [createRecommendation(id, title, <<>>, priority, estimatedImpact, category)
        EXCEPT !.actionable = actionable]

\* getTopRecommendations(limit: number = 10)
DefaultTopLimit == 10

\* Array.prototype.slice(0, end): a negative end counts from the end of the
\* array.
SliceFromStart(list, end) ==
    LET n == Len(list)
        stop == IF end < 0 THEN (IF n + end < 0 THEN 0 ELSE n + end) ELSE Min(end, n)
    IN  SubSeq(list, 1, stop)

\* A sort that puts the later of two records of equal impact first.
SortByImpact_TiesReversed(recs) ==
    LET Insert(sorted, i) ==
            SelectSeq(sorted, LAMBDA j : recs[j].estimatedImpact > recs[i].estimatedImpact)
            \o <<i>> \o
            SelectSeq(sorted, LAMBDA j : recs[j].estimatedImpact <= recs[i].estimatedImpact)
        Sorted[n \in 0..Len(recs)] ==
            IF n = 0 THEN <<>> ELSE Insert(Sorted[n - 1], n)
    IN  Sorted[Len(recs)]

\* [...recs].sort((a, b) => b.estimatedImpact - a.estimatedImpact): the copy
\* is sorted by estimatedImpact, greatest first; Array.prototype.sort is
\* stable, so records of equal impact keep their order.
SortByImpact(recs) ==
    LET Insert(sorted, i) ==
            SelectSeq(sorted, LAMBDA j : recs[j].estimatedImpact >= recs[i].estimatedImpact)
            \o <<i>> \o
            SelectSeq(sorted, LAMBDA j : recs[j].estimatedImpact < recs[i].estimatedImpact)
        Sorted[n \in 0..Len(recs)] ==
            IF n = 0 THEN <<>> ELSE Insert(Sorted[n - 1], n)
    IN  Sorted[Len(recs)]

\* A variant that sorts with the unstable order.
getTopRecommendations_TiesReversed(recs, limit) ==
    SliceFromStart(SortByImpact_TiesReversed(recs), Coalesce(limit, DefaultTopLimit))

getTopRecommendations(recs, limit) ==
    SliceFromStart(SortByImpact(recs), Coalesce(limit, DefaultTopLimit))

\* The arguments the callers of the ledgers pass.
EnhancementInputs ==
    { [description |-> <<"Enhanced">>, impact |-> ENHANCED, priority |-> HIGH],
      [description |-> <<"Exceptional">>, impact |-> EXCEPTIONAL, priority |-> HIGH],
      [description |-> <<"Transformative">>, impact |-> TRANSFORMATIVE, priority |-> LOW] }

RecommendationInputs ==
    { [title |-> "Low Impact", priority |-> LOW, estimatedImpact |-> 30, actionable |-> TRUE],
      [title |-> "High Impact", priority |-> HIGH, estimatedImpact |-> 95, actionable |-> TRUE],
      [title |-> "Medium Impact", priority |-> MEDIUM, estimatedImpact |-> 60, actionable |-> FALSE] }

TopLimits == Optional({-1, 0, 1, 2, MaxRecords + 1})

\* What the caller holds after a call on a ledger: the stored objects at
\* these positions of the ledger, in an array of the caller's own when the
\* call returned a list.
Held(ledger, query, priority, number, isList, list) ==
    [kind |-> "held", ledger |-> ledger, query |-> query, priority |-> priority,
     number |-> number, isList |-> isList, list |-> list]

\* The call had no priority among its arguments.
NoPriority == "none"

LedgerUnused == <<otherSystems, config, metrics, now, startTime, calls, settled>>

\* tracker.createEnhancement(description, impact, priority)
CreateEnhancement(input) ==
    /\ Len(enhancements) < MaxRecords
    /\ Len(recommendations) = 0
    /\ enhancements' = Append(enhancements,
           createEnhancement(nextId, input.description, input.impact, input.priority))
    /\ nextId' = nextId + 1
    /\ observed' = Held("enhancements", "createEnhancement", NoPriority, <<>>, FALSE,
                        <<Len(enhancements) + 1>>)
    /\ UNCHANGED <<LedgerUnused, recommendations>>

\* engine.createRecommendation(title, description, priority, estimatedImpact,
\* category, actionable)
CreateRecommendation(input) ==
    /\ Len(recommendations) < MaxRecords
    /\ Len(enhancements) = 0
    /\ recommendations' = Append(recommendations,
           createRecommendationActionable(nextId, input.title, input.priority,
               input.estimatedImpact, "test", input.actionable))
    /\ nextId' = nextId + 1
    /\ observed' = Held("recommendations", "createRecommendation", NoPriority, <<>>, FALSE,
                        <<Len(recommendations) + 1>>)
    /\ UNCHANGED <<LedgerUnused, enhancements>>

\* A query of a ledger: nothing stored changes, the caller holds the list.
LedgerQuery(ledger, query, priority, number, list) ==
    /\ observed' = Held(ledger, query, priority, number, TRUE, list)
    /\ UNCHANGED <<LedgerUnused, enhancements, recommendations, nextId>>

GetEnhancements ==
    /\ Len(recommendations) = 0
    /\ LedgerQuery("enhancements", "getEnhancements", NoPriority, <<>>,
                   getEnhancements(enhancements))

GetEnhancementsByPriority(priority) ==
    /\ Len(recommendations) = 0
    /\ LedgerQuery("enhancements", "getEnhancementsByPriority", priority, <<>>,
                   getEnhancementsByPriority(enhancements, priority))

GetEnhancementsByImpact(minImpact) ==
    /\ Len(recommendations) = 0
    /\ LedgerQuery("enhancements", "getEnhancementsByImpact", NoPriority, <<minImpact>>,
                   getEnhancementsByImpact(enhancements, minImpact))

GetAverageEnhancementLevel ==
    /\ Len(recommendations) = 0
    /\ observed' = [kind |-> "average",
                    average |-> getAverageEnhancementLevel(enhancements)]
    /\ UNCHANGED <<LedgerUnused, enhancements, recommendations, nextId>>

GetRecommendations ==
    /\ Len(enhancements) = 0
    /\ LedgerQuery("recommendations", "getRecommendations", NoPriority, <<>>,
                   getRecommendations(recommendations))

GetRecommendationsByPriority(priority) ==
    /\ Len(enhancements) = 0
    /\ LedgerQuery("recommendations", "getRecommendationsByPriority", priority, <<>>,
                   getRecommendationsByPriority(recommendations, priority))

GetActionableRecommendations ==
    /\ Len(enhancements) = 0
    /\ LedgerQuery("recommendations", "getActionableRecommendations", NoPriority, <<>>,
                   getActionableRecommendations(recommendations))

GetTopRecommendations(limit) ==
    /\ Len(enhancements) = 0
    /\ LedgerQuery("recommendations", "getTopRecommendations", NoPriority, limit,
                   getTopRecommendations(recommendations, limit))

\* The values the caller assigns.
CallerImpact == TRANSFORMATIVE
CallerEstimatedImpact == 95

\* The caller assigns to a field of a record it holds, record.impact = value
\* or record.estimatedImpact = value: the record is the object the ledger
\* stores, so the assignment is to the stored object.
CallerSetsImpact(k) ==
    /\ observed.kind = "held"
    /\ k \in 1..Len(observed.list)
    /\ IF observed.ledger = "enhancements"
       THEN /\ enhancements' =
                   [enhancements EXCEPT ![observed.list[k]].impact = CallerImpact]
            /\ UNCHANGED recommendations
       ELSE /\ recommendations' =
                   [recommendations EXCEPT
                       ![observed.list[k]].estimatedImpact = CallerEstimatedImpact]
            /\ UNCHANGED enhancements
    /\ UNCHANGED <<LedgerUnused, nextId, observed>>

\* The caller removes the last element of a list it was handed, list.pop():
\* the list is the caller's own array.
CallerPopsList ==
    /\ observed.kind = "held"
    /\ observed.isList
    /\ Len(observed.list) > 0
    /\ observed' = [observed EXCEPT !.list = SubSeq(@, 1, Len(@) - 1)]
    /\ UNCHANGED <<LedgerUnused, enhancements, recommendations, nextId>>

NextLedger ==
    \/ \E input \in EnhancementInputs : CreateEnhancement(input)
    \/ \E input \in RecommendationInputs : CreateRecommendation(input)
    \/ GetEnhancements
    \/ \E priority \in {HIGH, LOW} : GetEnhancementsByPriority(priority)
    \/ \E minImpact \in {ENHANCED, EXCEPTIONAL} : GetEnhancementsByImpact(minImpact)
    \/ GetAverageEnhancementLevel
    \/ GetRecommendations
    \/ \E priority \in {HIGH, LOW} : GetRecommendationsByPriority(priority)
    \/ GetActionableRecommendations
    \/ \E limit \in TopLimits : GetTopRecommendations(limit)
    \/ \E k \in 1..MaxRecords : CallerSetsImpact(k)
    \/ CallerPopsList

SpecLedger == InitDefault /\ [][NextLedger]_vars

\* ---------------------------------------------------------------- api.ts
\* What the wrapped Protocol110System method did: it returned a value or it
\* threw an error with a message.
Returned(value) == [kind |-> "returned", value |-> <<value>>, error |-> <<>>]
Threw(message) == [kind |-> "threw", value |-> <<>>, error |-> message]

\* The protocol object the controller was constructed with may be any
\* implementation of Protocol110System: the error its method throws, if it
\* throws. Absent, the method of protocol.ts runs.
Thrown == Optional(ErrorMessages)

\* A variant whose catch block rethrows the error.
ApiResponse_Rethrows(endpoint, outcome, t) ==
    [kind |-> "response", endpoint |-> endpoint, wrapped |-> outcome,
     settles |-> IF outcome.kind = "returned" THEN "resolved" ELSE "rejected",
     success |-> outcome.kind = "returned", data |-> outcome.value,
     error |-> IF outcome.kind = "returned" THEN <<>> ELSE <<outcome.error>>,
     timestamp |-> t]

\* The try/catch of every endpoint: { success: true, data, timestamp } when
\* the wrapped call returned, { success: false, error: String(error),
\* timestamp } when it threw. The promise of the endpoint resolves with it.
ApiResponse(endpoint, outcome, t) ==
    [kind |-> "response", endpoint |-> endpoint, wrapped |-> outcome,
     settles |-> "resolved",
     success |-> outcome.kind = "returned", data |-> outcome.value,
     error |-> IF outcome.kind = "returned" THEN <<>>
               ELSE <<StringOfError(outcome.error)>>,
     timestamp |-> t]

\* An endpoint that wraps a query of the orchestrator; value is what the
\* query of protocol.ts returns.
ApiQuery(endpoint, thrown, value) ==
    /\ observed' = ApiResponse(endpoint,
                               IF thrown = <<>> THEN Returned(value)
                               ELSE Threw(thrown[1]), now)
    /\ settled' = NotSettled
    /\ UNCHANGED <<otherSystems, config, enhancements, recommendations, nextId, now,
                   startTime, calls>>

\* getHealthCheck and getMetrics update the metrics before they answer.
ApiHealthCheck(thrown) ==
    /\ metrics' = IF thrown = <<>>
                  THEN updateMetrics(metrics, enhancements, now, startTime)
                  ELSE metrics
    /\ ApiQuery("healthCheck", thrown, HealthCheck(metrics'))

ApiGetMetrics(thrown) ==
    /\ metrics' = IF thrown = <<>>
                  THEN updateMetrics(metrics, enhancements, now, startTime)
                  ELSE metrics
    /\ ApiQuery("getMetrics", thrown, metrics')

ApiGetEnhancements(thrown) ==
    /\ UNCHANGED metrics
    /\ ApiQuery("getEnhancements", thrown, getEnhancements(enhancements))

\* limit ? getTopRecommendations(limit) : getRecommendations()
ApiGetRecommendations(limit, thrown) ==
    /\ UNCHANGED metrics
    /\ ApiQuery("getRecommendations", thrown,
                IF limit # <<>> /\ limit[1] # 0
                THEN getTopRecommendations(recommendations, limit)
                ELSE getRecommendations(recommendations))

ApiGetConfig(thrown) ==
    /\ UNCHANGED metrics
    /\ ApiQuery("getConfig", thrown, config)

\* executeOperation calls protocol.execute with an operation that resolves
\* with an object, and awaits it.
ApiExecuteStart(c) == ExecuteStart(c, MaxOps)

\* The operation of executeOperation resolves: execute settles.
ApiOperationResolves(c) == OperationResolves(c, "value")

\* The execute of the protocol object the controller was given rejects: the
\* await in executeOperation throws.
ApiExecuteThrows(message) ==
    /\ UNCHANGED metrics
    /\ ApiQuery("executeOperation", <<message>>, NoResult)

\* The await of executeOperation resumes with what execute settled with.
ApiExecuteReturns ==
    /\ settled.call # 0
    /\ observed' = ApiResponse("executeOperation",
                               IF settled.result.kind = "raised"
                               THEN Threw(settled.result.error)
                               ELSE Returned(settled.result), now)
    /\ settled' = NotSettled
    /\ UNCHANGED <<otherSystems, config, metrics, enhancements, recommendations, nextId,
                   now, startTime, calls>>

\* The limits the callers of getRecommendations pass.
ApiLimits == Optional({0, 1, 5})

\* The calls on one controller; the await of executeOperation resumes before
\* anything else runs.
NoAwaitResumes == settled.call = 0

NextApi ==
    \/ ApiExecuteReturns
    \/ NoAwaitResumes /\ \E thrown \in Thrown : ApiHealthCheck(thrown)
    \/ NoAwaitResumes /\ \E thrown \in Thrown : ApiGetMetrics(thrown)
    \/ NoAwaitResumes /\ \E thrown \in Thrown : ApiGetEnhancements(thrown)
    \/ NoAwaitResumes /\ \E limit \in ApiLimits, thrown \in Thrown :
                              ApiGetRecommendations(limit, thrown)
    \/ NoAwaitResumes /\ \E thrown \in Thrown : ApiGetConfig(thrown)
    \/ NoAwaitResumes /\ \E c \in Calls : ApiExecuteStart(c)
    \/ NoAwaitResumes /\ \E c \in Calls : ApiOperationResolves(c)
    \/ NoAwaitResumes /\ \E message \in ErrorMessages : ApiExecuteThrows(message)
    \/ NoAwaitResumes /\ Tick

SpecApi == Init /\ [][NextApi]_vars

\* -------------------------------------------------------- integrations.ts
\* Message of the error send and receive throw.
NotConnected == <<"N","o","t"," ","c","o","n","n","e","c","t","e","d">>

\* The adapter classes of integrations.ts; "custom" is an implementation of
\* the IntegrationAdapter interface supplied by the caller, whose connect and
\* disconnect report the boolean the caller's code decides.
BuiltInKinds == {"http", "websocket"}
AdapterKinds == BuiltInKinds \cup {"custom"}

\* new HttpIntegrationAdapter(name, ...): connected = false. lifecycle is the
\* last of connect and disconnect that was called on the object.
NewAdapter(name, kind) ==
    [name |-> name, kind |-> kind, connected |-> FALSE, lifecycle |-> "none"]

\* What adapter.connect() or adapter.disconnect() resolves with; a custom
\* adapter reports report.
LifecycleReport(adapter, report) ==
    IF adapter.kind \in BuiltInKinds THEN TRUE ELSE report

\* this.connected = true; a custom adapter is connected when it reports so.
connect(adapter, report) ==
    [adapter EXCEPT !.connected = LifecycleReport(adapter, report),
                    !.lifecycle = "connect"]

\* this.connected = false; a custom adapter that reports failure stays as
\* it is.
disconnect(adapter, report) ==
    [adapter EXCEPT !.connected = IF LifecycleReport(adapter, report) THEN FALSE ELSE @,
                    !.lifecycle = "disconnect"]

\* What a call on an adapter settles with.
Resolves(value) == [threw |-> FALSE, error |-> <<>>, value |-> value]
Rejects(message) == [threw |-> TRUE, error |-> message, value |-> "none"]

\* A variant of send without the connection check.
send_Unchecked(adapter) == Resolves("true")

\* if (!this.connected) throw new Error('Not connected'); return true
send(adapter) ==
    IF ~adapter.connected THEN Rejects(NotConnected) ELSE Resolves("true")

\* if (!this.connected) throw new Error('Not connected'); return {}
receive(adapter) ==
    IF ~adapter.connected THEN Rejects(NotConnected) ELSE Resolves("object")

\* A variant that is satisfied with one success.
every_Some(reports) == \E i \in 1..Len(reports) : reports[i]

\* results.every((r) => r)
every(reports) == \A i \in 1..Len(reports) : reports[i]

\* Array.from(this.adapters.values())
getAdapters(list) == Positions(list)

\* Array.from(this.adapters.values()).filter((a) => a.isConnected())
getConnectedAdapters(list) ==
    SelectSeq(Positions(list), LAMBDA i : list[i].connected)

\* this.adapters.set(adapter.name, adapter): an adapter registered under a
\* name in use takes the place of the earlier one.
registerAdapter(list, adapter) ==
    IF \E i \in 1..Len(list) : list[i].name = adapter.name
    THEN [i \in 1..Len(list) |->
             IF list[i].name = adapter.name THEN adapter ELSE list[i]]
    ELSE Append(list, adapter)

\* The adapters the callers construct.
AdapterInputs ==
    { [name |-> "http1", kind |-> "http"],
      [name |-> "ws1", kind |-> "websocket"],
      [name |-> "ws1", kind |-> "custom"] }

\* What the call of the last step did: on which adapter (0 for the manager),
\* the adapter's flag before the call, what the call settled with, what each
\* adapter reported to the manager, the list a query returned.
Integrated(op, adapter, connectedBefore, outcome, reports, list) ==
    [op |-> op, adapter |-> adapter, connectedBefore |-> connectedBefore,
     threw |-> outcome.threw, error |-> outcome.error, value |-> outcome.value,
     reports |-> reports, list |-> list]

BoolText(b) == IF b THEN "true" ELSE "false"

RegisterAdapter(input) ==
    /\ \/ Len(adapters) < MaxAdapters
       \/ \E i \in 1..Len(adapters) : adapters[i].name = input.name
    /\ adapters' = registerAdapter(adapters, NewAdapter(input.name, input.kind))
    /\ integrated' = Integrated("registerAdapter", 0, FALSE, Resolves("none"), <<>>, <<>>)
    /\ UNCHANGED <<protocolVars, healingVars, learningVars>>

\* adapter.connect() on a registered adapter the caller holds.
Connect(i, report) ==
    /\ i \in 1..Len(adapters)
    /\ adapters' = [adapters EXCEPT ![i] = connect(@, report)]
    /\ integrated' = Integrated("connect", i, adapters[i].connected,
                                Resolves(BoolText(LifecycleReport(adapters[i], report))),
                                <<>>, <<>>)
    /\ UNCHANGED <<protocolVars, healingVars, learningVars>>

Disconnect(i, report) ==
    /\ i \in 1..Len(adapters)
    /\ adapters' = [adapters EXCEPT ![i] = disconnect(@, report)]
    /\ integrated' = Integrated("disconnect", i, adapters[i].connected,
                                Resolves(BoolText(LifecycleReport(adapters[i], report))),
                                <<>>, <<>>)
    /\ UNCHANGED <<protocolVars, healingVars, learningVars>>

\* send and receive of the HTTP and WebSocket adapters.
Send(i) ==
    /\ i \in 1..Len(adapters)
    /\ adapters[i].kind \in BuiltInKinds
    /\ integrated' = Integrated("send", i, adapters[i].connected, send(adapters[i]),
                                <<>>, <<>>)
    /\ UNCHANGED <<protocolVars, healingVars, learningVars, adapters>>

Receive(i) ==
    /\ i \in 1..Len(adapters)
    /\ adapters[i].kind \in BuiltInKinds
    /\ integrated' = Integrated("receive", i, adapters[i].connected,
                                receive(adapters[i]), <<>>, <<>>)
    /\ UNCHANGED <<protocolVars, healingVars, learningVars, adapters>>

\* connectAll: connect is called on every registered adapter, in order, and
\* the results are awaited together.
ConnectAll(inputs) ==
    /\ adapters' = [i \in 1..Len(adapters) |-> connect(adapters[i], inputs[i])]
    /\ LET reports == [i \in 1..Len(adapters) |->
                          LifecycleReport(adapters[i], inputs[i])]
       IN  integrated' = Integrated("connectAll", 0, FALSE,
                                    Resolves(BoolText(every(reports))), reports, <<>>)
    /\ UNCHANGED <<protocolVars, healingVars, learningVars>>

DisconnectAll(inputs) ==
    /\ adapters' = [i \in 1..Len(adapters) |-> disconnect(adapters[i], inputs[i])]
    /\ LET reports == [i \in 1..Len(adapters) |->
                          LifecycleReport(adapters[i], inputs[i])]
       IN  integrated' = Integrated("disconnectAll", 0, FALSE,
                                    Resolves(BoolText(every(reports))), reports, <<>>)
    /\ UNCHANGED <<protocolVars, healingVars, learningVars>>

GetAdapters ==
    /\ integrated' = Integrated("getAdapters", 0, FALSE, Resolves("none"), <<>>,
                                getAdapters(adapters))
    /\ UNCHANGED <<protocolVars, healingVars, learningVars, adapters>>

GetConnectedAdapters ==
    /\ integrated' = Integrated("getConnectedAdapters", 0, FALSE, Resolves("none"),
                                <<>>, getConnectedAdapters(adapters))
    /\ UNCHANGED <<protocolVars, healingVars, learningVars, adapters>>

\* What the custom adapters report to one call of the manager.
ReportInputs == [1..Len(adapters) -> BOOLEAN]

\* One caller that awaits each call on the manager and on its adapters.
NextIntegration ==
    \/ \E input \in AdapterInputs : RegisterAdapter(input)
    \/ \E i \in 1..MaxAdapters, report \in BOOLEAN : Connect(i, report)
    \/ \E i \in 1..MaxAdapters, report \in BOOLEAN : Disconnect(i, report)
    \/ \E i \in 1..MaxAdapters : Send(i)
    \/ \E i \in 1..MaxAdapters : Receive(i)
    \/ \E inputs \in ReportInputs : ConnectAll(inputs)
    \/ \E inputs \in ReportInputs : DisconnectAll(inputs)
    \/ GetAdapters
    \/ GetConnectedAdapters

SpecIntegration == InitDefault /\ [][NextIntegration]_vars

\* ================================================================= claims
\* The execute calls whose operation has not settled yet.
Pending == {c \in Calls : calls[c].pc = "awaiting"}

\* The last step settled a call with the result of a resolved operation.
GenuineSuccess(s) ==
    s.call # 0 /\ s.result.kind = "returned" /\ ~s.result.data.healed

\* The last step settled a call with the synthetic result of self-healing.
HealedResult(s) ==
    s.call # 0 /\ s.result.kind = "returned" /\ s.result.data.healed

\* The last step settled a call by rethrowing the operation's error.
RaisedResult(s) == s.call # 0 /\ s.result.kind = "raised"

\* This step is the first turn of an execute call.
StartsCall ==
    \E c \in Calls :
        \/ ExecuteStart(c, MaxOps)
        \/ \E message \in ErrorMessages : ExecuteStartThrows(c, MaxOps, message)

CountersBalance(m) ==
    m.totalOperations = m.successfulOperations + m.failedOperations

\* C1 (as stated): in every reachable state, and in every snapshot getMetrics
\* returns, totalOperations = successfulOperations + failedOperations.
C1_TotalAlwaysBalanced ==
    /\ CountersBalance(metrics)
    /\ observed.kind = "metrics" => CountersBalance(observed.metrics)

\* C1 (amended): every execute call increases totalOperations by exactly 1,
\* in its first turn, and no other step changes it; in every reachable state
\* totalOperations = successfulOperations + failedOperations + the number of
\* execute calls whose operation is still pending at its await.
C1_TotalCountsPending ==
    /\ [](metrics.totalOperations =
            metrics.successfulOperations + metrics.failedOperations
            + Cardinality(Pending))
    /\ [][metrics'.totalOperations =
            metrics.totalOperations + (IF StartsCall THEN 1 ELSE 0)]_vars

\* C1 witness: getMetrics returned a snapshot while an operation was pending.
C1_Witness ==
    /\ Pending # {}
    /\ observed.kind = "metrics"
    /\ observed.metrics.totalOperations = 1
    /\ observed.metrics.successfulOperations + observed.metrics.failedOperations = 0

C3_FailureReturnsSuccess ==
    config.enableSelfHealing =>
        /\ ~RaisedResult(settled)
        /\ \A c \in Calls :
              calls[c].pc = "healing" =>
                  /\ calls[c].healingResult.kind = "returned"
                  /\ metrics.failedOperations >= 1
        /\ HealedResult(settled) =>
              /\ settled.result.success
              /\ Len(settled.result.recommendations) >= 1
              /\ metrics.totalOperations >= 1

\* C3 witness: the operation threw 'Test error' and execute returned success.
C3_Witness ==
    /\ config.enableSelfHealing
    /\ HealedResult(settled)
    /\ settled.result.success
    /\ settled.result.data.originalError = StringOfError(TestError)
    /\ metrics.totalOperations = 1

\* C4 (as stated): with enableContinuousImprovement=false every execute call
\* returns no enhancement and no recommendation and both ledgers stay empty.
C4_NothingWhenDisabled ==
    ~config.enableContinuousImprovement =>
        /\ enhancements = <<>>
        /\ recommendations = <<>>
        /\ settled.result.enhancements = <<>>
        /\ settled.result.recommendations = <<>>

\* C4 (amended): with enableContinuousImprovement=false a success and a
\* re-raised failure return no enhancement and no recommendation and append
\* nothing; a healed failure returns no enhancement but still returns, and
\* appends to the recommendation ledger, its one 'Self-Healing Action'
\* recommendation. The enhancement ledger stays empty.
C4_OnlyHealingWhenDisabled ==
    ~config.enableContinuousImprovement =>
        /\ enhancements = <<>>
        /\ settled.result.enhancements = <<>>
        /\ ~HealedResult(settled) => settled.result.recommendations = <<>>
        /\ HealedResult(settled) =>
              /\ Len(settled.result.recommendations) = 1
              /\ settled.result.recommendations[1].title = "Self-Healing Action"
        /\ \A i \in 1..Len(recommendations) :
              recommendations[i].title = "Self-Healing Action"
        /\ Len(recommendations) =
              IF config.enableSelfHealing THEN metrics.failedOperations ELSE 0
        /\ metrics.totalRecommendations = 0

\* C4 witness: continuous improvement is off, an operation succeeded, and
\* the ledger holds the recommendation of an earlier healed failure.
C4_Witness ==
    /\ ~config.enableContinuousImprovement
    /\ GenuineSuccess(settled)
    /\ settled.result.recommendations = <<>>
    /\ Len(recommendations) = 1

\* The last n elements of a sequence.
LastN(seq, n) == SubSeq(seq, Len(seq) - n + 1, Len(seq))

\* seq' is seq followed by exactly the records of added.
GrowsBy(seq, seqAfter, added) == seqAfter = seq \o added


IsPerformanceRecommendation(r) ==
    /\ r.title = "Optimize Performance"
    /\ r.priority = MEDIUM
    /\ r.estimatedImpact = 75
    /\ r.category = "performance"

IsMonitoringRecommendation(r) ==
    /\ r.title = "Enhanced Monitoring"
    /\ r.priority = LOW
    /\ r.estimatedImpact = 50
    /\ r.category = "monitoring"

\* C5: a successful execute with continuous improvement enabled appends
\* exactly two recommendations to the ledger ('Optimize Performance', MEDIUM,
\* 75, performance; then 'Enhanced Monitoring', LOW, 50, monitoring) and
\* returns the first min(2, maxRecommendations) of them.
C5_TwoRecommendationsTruncatedOnReturn ==
    [][(GenuineSuccess(settled') /\ config.enableContinuousImprovement) =>
          /\ Len(recommendations') = Len(recommendations) + 2
          /\ GrowsBy(recommendations, recommendations', LastN(recommendations', 2))
          /\ IsPerformanceRecommendation(LastN(recommendations', 2)[1])
          /\ IsMonitoringRecommendation(LastN(recommendations', 2)[2])
          /\ settled'.result.recommendations =
                SubSeq(LastN(recommendations', 2), 1,
                       Min(2, config.maxRecommendations))
          /\ metrics'.totalRecommendations = metrics.totalRecommendations + 2
      ]_vars

\* C5 witness: with maxRecommendations=1 the result carries one
\* recommendation and the ledger holds two.
C5_Witness ==
    /\ config.enableContinuousImprovement
    /\ config.maxRecommendations = 1
    /\ GenuineSuccess(settled)
    /\ Len(settled.result.recommendations) = 1
    /\ Len(recommendations) = 2

IsBaselineEnhancement(e) == e.impact = ENHANCED /\ e.priority = MEDIUM
IsValidationEnhancement(e) == e.impact = EXCEPTIONAL /\ e.priority = LOW

\* C6: a successful execute with continuous improvement enabled returns one
\* ENHANCED/MEDIUM enhancement, followed by one EXCEPTIONAL/LOW enhancement
\* iff the operation's value is neither null nor undefined; the enhancement
\* ledger grows by exactly the returned records, in the same order.
C6_EnhancementsOfSuccess ==
    [][(GenuineSuccess(settled') /\ config.enableContinuousImprovement) =>
          LET enh == settled'.result.enhancements
              nullish == settled'.result.data.tag \in {"null", "undefined"}
          IN  /\ Len(enh) = IF nullish THEN 1 ELSE 2
              /\ IsBaselineEnhancement(enh[1])
              /\ ~nullish => IsValidationEnhancement(enh[2])
              /\ GrowsBy(enhancements, enhancements', enh)
      ]_vars

\* C6 witness: an operation resolved with undefined and the result carries
\* the single ENHANCED enhancement.
C6_Witness ==
    /\ config.enableContinuousImprovement
    /\ GenuineSuccess(settled)
    /\ settled.result.data.tag = "undefined"
    /\ Len(settled.result.enhancements) = 1
    /\ Len(enhancements) = 1

\* C7: a healed result is success=true, status SUCCESS, data = {healed:true,
\* originalError: text of the call's error}, no enhancement, and exactly one
\* HIGH 'Self-Healing Action' recommendation with estimatedImpact 90, which
\* the recommendation ledger holds too.
C7_HealedResultShape ==
    [][\A c \in Calls :
          (settled'.call = c /\ HealedResult(settled')) =>
              LET r == settled'.result
              IN  /\ calls[c].pc = "healing"
                  /\ r.success
                  /\ r.status = STATUS_SUCCESS
                  /\ r.data.healed
                  /\ r.data.originalError = StringOfError(calls[c].error)
                  /\ r.enhancements = <<>>
                  /\ Len(r.recommendations) = 1
                  /\ r.recommendations[1].title = "Self-Healing Action"
                  /\ r.recommendations[1].priority = HIGH
                  /\ r.recommendations[1].estimatedImpact = 90
                  /\ \E i \in 1..Len(recommendations') :
                        recommendations'[i] = r.recommendations[1]
      ]_vars

\* C7 witness: a call whose operation failed with 'Network timeout error'
\* returned a healed result.
C7_Witness ==
    /\ HealedResult(settled)
    /\ settled.result.data.originalError = StringOfError(NetworkTimeoutError)
    /\ settled.result.status = STATUS_SUCCESS

\* This step is call c taking the failure of its operation (rejected
\* promise or synchronous throw) with the given message.
OperationFails(c, message) ==
    \/ OperationRejects(c, message)
    \/ ExecuteStartThrows(c, MaxOps, message)

\* C8: with enableSelfHealing=false a failing operation makes execute
\* re-raise that same error; failedOperations grows by 1, successfulOperations
\* and enhancedOperations are unchanged and neither ledger gains a record.
C8_DisabledHealingRethrows ==
    [][\A c \in Calls, message \in ErrorMessages :
          (~config.enableSelfHealing /\ OperationFails(c, message)) =>
              /\ settled'.call = c
              /\ settled'.result.kind = "raised"
              /\ settled'.result.error = message
              /\ metrics'.failedOperations = metrics.failedOperations + 1
              /\ metrics'.successfulOperations = metrics.successfulOperations
              /\ metrics'.enhancedOperations = metrics.enhancedOperations
              /\ enhancements' = enhancements
              /\ recommendations' = recommendations
      ]_vars

\* C8 witness: self-healing is off and a call re-raised 'Test error'.
C8_Witness ==
    /\ ~config.enableSelfHealing
    /\ RaisedResult(settled)
    /\ settled.result.error = TestError
    /\ metrics.failedOperations = 1
    /\ metrics.successfulOperations = 0

\* C9: a returned result has status ENHANCED iff its enhancements are
\* non-empty, otherwise SUCCESS; the call that returns it increments
\* enhancedOperations iff it produced at least one enhancement; every
\* operation that succeeded increments successfulOperations.
C9_StatusAndEnhancedCounter ==
    [][(settled'.call # 0 /\ settled'.result.kind = "returned") =>
          LET r == settled'.result
          IN  /\ r.status = STATUS_ENHANCED <=> Len(r.enhancements) > 0
              /\ r.status = STATUS_SUCCESS <=> Len(r.enhancements) = 0
              /\ metrics'.enhancedOperations = metrics.enhancedOperations
                    + (IF Len(r.enhancements) > 0 THEN 1 ELSE 0)
              /\ GenuineSuccess(settled') =>
                    metrics'.successfulOperations = metrics.successfulOperations + 1
      ]_vars

\* C9 witness: continuous improvement is off, so a success carries no
\* enhancement: status SUCCESS, counted as successful but not as enhanced.
C9_Witness ==
    /\ GenuineSuccess(settled)
    /\ settled.result.enhancements = <<>>
    /\ settled.result.status = STATUS_SUCCESS
    /\ metrics.successfulOperations = 1
    /\ metrics.enhancedOperations = 0

\* max(totalOperations, 1)
TotalOrOne(m) == IF m.totalOperations > 1 THEN m.totalOperations ELSE 1

\* C10: getHealthCheck returns successRate = successfulOperations /
\* max(totalOperations,1) * 100 and enhancementRate = enhancedOperations /
\* max(totalOperations,1) * 100; healthy=true and status 'healthy' iff
\* successRate >= 80 and uptime > 0, otherwise healthy=false, status
\* 'degraded' and issues holds 'Success rate below threshold'.
C10_HealthCheck ==
    observed.kind = "health" =>
        LET healthy == /\ 100 * metrics.successfulOperations >= 80 * TotalOrOne(metrics)
                       /\ now - startTime > 0
        IN  /\ observed.successRate.num * TotalOrOne(metrics) =
                  100 * metrics.successfulOperations * observed.successRate.den
            /\ observed.enhancementRate.num * TotalOrOne(metrics) =
                  100 * metrics.enhancedOperations * observed.enhancementRate.den
            /\ observed.successRate.den > 0
            /\ observed.enhancementRate.den > 0
            /\ observed.uptime = now - startTime
            /\ observed.healthy <=> healthy
            /\ observed.status = IF healthy THEN "healthy" ELSE "degraded"
            /\ ~healthy => \E i \in 1..Len(observed.issues) :
                      observed.issues[i] = "Success rate below threshold"

\* C10 witness: four of five operations succeeded (successRate exactly 80)
\* and time has passed: the check reports healthy.
C10_Witness ==
    /\ observed.kind = "health"
    /\ metrics.totalOperations = 5
    /\ metrics.successfulOperations = 4
    /\ observed.uptime > 0
    /\ observed.healthy

\* Every execute call made so far completed, and none failed.
AllCompletedSuccessfully ==
    /\ metrics.totalOperations >= 1
    /\ metrics.failedOperations = 0
    /\ \A c \in Calls : calls[c].pc = "idle"

C13_SingleSuspensionPoint ==
    \A c \in Calls : calls[c].pc \in {"idle", "awaiting"}

\* Call c takes no part in this step.
CallUntouched(c) == calls'[c] = calls[c] /\ settled'.call # c

\* C13 (amended): execute has two suspension points, the await of the
\* operation and, for a failed operation with self-healing enabled, the
\* await of attemptSelfHealing. All of a call's counter updates and ledger
\* appends that follow the settling of its operation happen in the one turn
\* in which the call leaves the first await (for a failure: failedOperations
\* and the healing recommendation); the turn that resumes the second await
\* only returns the result and changes neither counters nor ledgers. Every
\* turn belongs to at most one call.
C13_UpdatesInOneTurn ==
    [][/\ \A c \in Calls :
            (calls[c].pc = "healing" /\ ~CallUntouched(c)) =>
                /\ settled'.call = c
                /\ calls'[c].pc = "idle"
                /\ metrics' = metrics
                /\ enhancements' = enhancements
                /\ recommendations' = recommendations
       /\ \A c \in Calls :
            (calls[c].pc # "healing" /\ calls'[c].pc = "healing") =>
                /\ metrics'.failedOperations = metrics.failedOperations + 1
                /\ Len(recommendations') = Len(recommendations) + 1
                /\ recommendations'[Len(recommendations')] =
                      calls'[c].healingResult.recommendations[1]
       /\ \A c, d \in Calls :
            (~CallUntouched(c) /\ ~CallUntouched(d)) => c = d
      ]_vars

\* C13 witness: while one call is suspended at the await of
\* attemptSelfHealing, another call settled.
C13_Witness ==
    \E c, d \in Calls :
        /\ c # d
        /\ calls[c].pc = "healing"
        /\ settled.call = d

\* C12: a throw of the logger at any logging point of execute leaves the
\* turn's outcome (result or raised error, counters, ledgers) as it is when
\* every logger call succeeds, and the counters stay balanced.
C12_LoggingNeverChangesOutcome ==
    /\ [](metrics.totalOperations =
            metrics.successfulOperations + metrics.failedOperations
            + Cardinality(Pending))
    /\ [][\A c \in Calls, F \in LoggerFailures :
            /\ \A op \in Operations :
                  StartWithLogging(c, MaxOps, op, F) => StartWithLogging(c, MaxOps, op, {})
            /\ \A v \in OperationValues :
                  ResolveWithLogging(c, v, F) => ResolveWithLogging(c, v, {})
            /\ \A message \in ErrorMessages :
                  RejectWithLogging(c, message, F) => RejectWithLogging(c, message, {})
         ]_vars

\* The strategies of list whose matcher accepts text, by position.
Matching(list, text) ==
    {i \in 1..Len(list) : PatternTest(list[i].errorPattern, text)}

\* A heal call started in this step; heal call k settled in this step after
\* its await.
HealStarts == Len(heals') = Len(heals) + 1
HealResumes(k) == heals[k].pc = "acting" /\ heals'[k].pc = "done"

\* C14: a heal call whose error text is accepted by some strategy invokes the
\* healing action of the first such strategy in list order and of no other,
\* also when several match; when the call settles, at once or after the
\* await, it invokes nothing more and the attempt it records names that
\* strategy.
C14_FirstMatchWins ==
    [][/\ HealStarts =>
            LET k == Len(heals')
                M == Matching(strategies, healed'.errorMessage)
            IN  M # {} =>
                  LET first == strategies[CHOOSE i \in M : \A j \in M : i <= j]
                  IN  /\ healed'.call = k
                      /\ healed'.invoked = <<first.id>>
                      /\ heals'[k].pc = "acting" => heals'[k].strategy = first
                      /\ heals'[k].pc = "done" =>
                            /\ Len(healingHistory') = Len(healingHistory) + 1
                            /\ healingHistory'[Len(healingHistory')].strategyUsed
                                  = first.name
       /\ \A k \in 1..Len(heals) : HealResumes(k) =>
            /\ healed'.invoked = <<>>
            /\ Len(healingHistory') = Len(healingHistory) + 1
            /\ healingHistory'[Len(healingHistory')].strategyUsed
                  = heals[k].strategy.name]_vars

\* A heal call has just invoked an action for an error two strategies match.
C14_Witness ==
    /\ healed.invoked # <<>>
    /\ Cardinality(Matching(strategies, healed.errorMessage)) >= 2

\* The priorities from the most to the least urgent, and the place of a
\* strategy's priority among them.
PriorityRanks == <<CRITICAL, HIGH, MEDIUM, LOW>>
RankOf(strategy) == CHOOSE r \in 1..4 : PriorityRanks[r] = strategy.priority

BuiltInIds == {DefaultStrategies[i].id : i \in 1..Len(DefaultStrategies)}
RemoveAt(list, j) == SubSeq(list, 1, j - 1) \o SubSeq(list, j + 1, Len(list))

\* C15: the strategy list is always sorted by priority rank CRITICAL, HIGH,
\* MEDIUM, LOW; the built-ins appear in the order network-retry,
\* resource-cleanup, rate-limit-backoff and before registered strategies of
\* their priority; each registerStrategy call grows the list by exactly one,
\* keeps the order of the strategies already there and places the new one
\* after every strategy of its priority.
C15_SortedStableGrowsByOne ==
    /\ [](/\ \A i, j \in 1..Len(strategies) :
                i < j => RankOf(strategies[i]) <= RankOf(strategies[j])
          /\ SelectSeq(strategies, LAMBDA s : s.id \in BuiltInIds) = DefaultStrategies
          /\ \A i, j \in 1..Len(strategies) :
                (/\ i < j
                 /\ RankOf(strategies[i]) = RankOf(strategies[j])
                 /\ strategies[j].id \in BuiltInIds) => strategies[i].id \in BuiltInIds)
    /\ [][strategies' # strategies =>
            /\ Len(strategies') = Len(strategies) + 1
            /\ \E j \in 1..Len(strategies') :
                  /\ strategies'[j] \in CustomStrategies
                  /\ RemoveAt(strategies', j) = strategies
                  /\ \A i \in 1..Len(strategies') :
                        RankOf(strategies'[i]) = RankOf(strategies'[j]) => i <= j]_vars

\* A HIGH strategy was registered: it stands behind the two HIGH built-ins
\* and before the MEDIUM one.
C15_Witness ==
    /\ Len(strategies) = Len(DefaultStrategies) + 1
    /\ strategies[3].id = "custom-strategy"

\* The attempt a step appended to the history, the history being below its
\* limit.
AppendsOneAttempt ==
    /\ Len(healingHistory') = Len(healingHistory) + 1
    /\ SubSeq(healingHistory', 1, Len(healingHistory)) = healingHistory
LastAttempt(history) == history[Len(history)]

\* C16: a heal call whose error text no registered strategy accepts invokes
\* no healing action, appends one attempt with strategyUsed 'none' and
\* success false, and returns false, all before it yields.
C16_NoMatchRecordsNone ==
    [][(HealStarts /\ Matching(strategies, healed'.errorMessage) = {}) =>
          /\ healed'.invoked = <<>>
          /\ AppendsOneAttempt
          /\ LastAttempt(healingHistory').strategyUsed = "none"
          /\ LastAttempt(healingHistory').success = FALSE
          /\ LastAttempt(healingHistory').errorType = healed'.errorMessage
          /\ healed'.returned = <<FALSE>>
          /\ ~healed'.raised
          /\ heals'[Len(heals')].pc = "done"]_vars

\* A heal call has just returned false for an error nothing matches.
C16_Witness ==
    /\ healed.call # 0
    /\ Matching(strategies, healed.errorMessage) = {}
    /\ healed.returned = <<FALSE>>
    /\ healingHistory # <<>>
    /\ LastAttempt(healingHistory).strategyUsed = "none"

\* The step recorded one failed attempt under name and the heal call
\* resolved to false.
RecordsFailure(name) ==
    /\ AppendsOneAttempt
    /\ LastAttempt(healingHistory').strategyUsed = name
    /\ LastAttempt(healingHistory').success = FALSE
    /\ healed'.returned = <<FALSE>>
    /\ ~healed'.raised

\* C17: when the healing action of the matched strategy throws, as it is
\* called or as its promise rejects, heal does not let the exception out: it
\* appends one attempt with that strategy's name and success false and
\* returns false.
C17_ActionExceptionIsAFailedAttempt ==
    [][/\ HealStarts =>
            LET M == Matching(strategies, healed'.errorMessage)
            IN  M # {} =>
                  LET first == strategies[CHOOSE i \in M : \A j \in M : i <= j]
                  IN  first.actionThrows = "sync" => RecordsFailure(first.name)
       /\ \A k \in 1..Len(heals) :
            (HealResumes(k) /\ heals[k].strategy.actionThrows = "async")
                => RecordsFailure(heals[k].strategy.name)]_vars

\* A heal call has just returned false because the action of the strategy
\* it matched rejected.
C17_Witness ==
    /\ healed.call # 0
    /\ healed.returned = <<FALSE>>
    /\ healingHistory # <<>>
    /\ LastAttempt(healingHistory).strategyUsed = "Custom Strategy"

\* The number of heal calls that have finished.
HealsDone == Cardinality({k \in 1..Len(heals) : heals[k].pc = "done"})

\* C18: after n heal calls the history holds min(n, 100) attempts, never more
\* than 100, and they are the attempts recorded last, oldest first: the
\* attempt at place i is the one recorded as number n - length + i.
C18_HistoryKeepsLastHundred ==
    LET n == HealsDone
        length == Len(healingHistory)
    IN  /\ length = Min(n, HistoryLimit)
        /\ length <= HistoryLimit
        /\ \A i \in 1..length : healingHistory[i].id = n - length + i

\* 102 heal calls have finished: the history holds attempts 3 to 102.
C18_Witness ==
    /\ HealsDone = HistoryLimit + 2
    /\ Len(healingHistory) = HistoryLimit
    /\ healingHistory[1].id = 3
    /\ healingHistory[HistoryLimit].id = HistoryLimit + 2

\* C19: every finished heal call has recorded exactly one attempt, whether
\* a strategy matched, none did or the action threw, and a heal call that
\* has not finished has recorded none; the boolean a heal call returns is
\* the success field of the attempt it has just recorded.
C19_OneAttemptPerHealAndSameBoolean ==
    /\ attempts = HealsDone
    /\ Len(healingHistory) = Min(HealsDone, HistoryLimit)
    /\ (healed.call # 0 /\ heals[healed.call].pc = "done") =>
          /\ ~healed.raised
          /\ healed.returned = <<LastAttempt(healingHistory).success>>
          /\ LastAttempt(healingHistory).id = attempts
          /\ LastAttempt(healingHistory).errorType = healed.errorMessage

\* The second heal call to finish has just returned true after its
\* strategy's action resolved.
C19_Witness ==
    /\ HealsDone = 2
    /\ healed.call # 0
    /\ healed.returned = <<TRUE>>
    /\ LastAttempt(healingHistory).success
    /\ LastAttempt(healingHistory).strategyUsed = "Network Retry"

\* A heal call has just finished for errorMessage with only the built-in
\* strategies registered; the attempt it recorded names strategy name and
\* it returned true.
BuiltInsHandled(errorMessage) ==
    /\ healed.call # 0
    /\ heals[healed.call].pc = "done"
    /\ strategies = DefaultStrategies
    /\ healed.errorMessage = errorMessage
HandledBy(name) ==
    /\ LastAttempt(healingHistory).strategyUsed = name
    /\ healed.returned = <<TRUE>>

\* C20: with only the built-in strategies registered, heal on 'too many
\* requests' is handled by Rate Limit Backoff and returns true, heal on
\* 'Network timeout error' by Network Retry, and heal on 'Rate limit
\* exceeded' by Rate Limit Backoff.
C20_BuiltInsHandleTheirErrors ==
    /\ BuiltInsHandled(TooManyRequests) => HandledBy("Rate Limit Backoff")
    /\ BuiltInsHandled(NetworkTimeoutError) => HandledBy("Network Retry")
    /\ BuiltInsHandled(RateLimitExceeded) => HandledBy("Rate Limit Backoff")

\* The double x lies within ulps units in the last place of num / den.
NearRatio(x, num, den, ulps) ==
    IF num = 0 THEN x = ZeroNumber
    ELSE /\ x # ZeroNumber
         /\ x.e <= 0
         /\ LET A == MulSmall(x.m, den)
                B == ShiftLeft(NatOfInt(num), 0 - x.e)
                D == IF CompareNat(A, B) >= 0 THEN SubNat(A, B) ELSE SubNat(B, A)
            IN  CompareNat(D, NatOfInt(ulps * den)) <= 0

\* The attempts of the history marked successful.
Successful(history) == Len(SelectSeq(history, LAMBDA h : h.success))

\* C21: getSuccessRate returns 0 for an empty history and otherwise
\* 100 * s / n, s of the n retained attempts being successful: the double it
\* returns is within the rounding of its two operations (two units in the
\* last place) of that value, is exactly 0 when s = 0 and exactly 100 when
\* s = n, and always lies in [0, 100]; n never exceeds 100.
C21_SuccessRateOfRetainedAttempts ==
    healingRate # <<>> =>
        LET rate == healingRate[1]
            n == Len(healingHistory)
            s == Successful(healingHistory)
        IN  /\ n <= HistoryLimit
            /\ n = 0 => rate = ZeroNumber
            /\ n > 0 => NearRatio(rate, 100 * s, n, 2)
            /\ (n > 0 /\ s = n) => rate = NumberOfInt(100)
            /\ AtLeast(rate, ZeroNumber)
            /\ AtLeast(NumberOfInt(100), rate)

\* After 102 heal calls, the first three of them failed, the rate is that of
\* the 100 retained attempts, one of them failed: 99.
C21_Witness ==
    /\ attempts = HistoryLimit + 2
    /\ Len(healingHistory) = HistoryLimit
    /\ Successful(healingHistory) = HistoryLimit - 1
    /\ healingRate = <<NumberOfInt(99)>>

\* C22: for every name the stored frequency is the number of observations
\* of that name since construction or the last clear, the stored successRate
\* is the number of successful ones divided by that frequency, as
\* recomputed from the full history, and there is exactly one pattern per
\* observed name.
C22_RunningAverageIsExact ==
    /\ \A name \in PatternNames :
          tally[name].seen > 0 <=> PatternIndex(patterns, name) # 0
    /\ \A i, j \in 1..Len(patterns) :
          patterns[i].pattern = patterns[j].pattern => i = j
    /\ \A i \in 1..Len(patterns) :
          LET t == tally[patterns[i].pattern]
          IN  /\ patterns[i].frequency = t.seen
              /\ patterns[i].successRate = NumberOfRatio(t.succeeded, t.seen)

\* The insights of a list that are about the pattern named name.
InsightsAbout(list, name) == SelectSeq(list, LAMBDA x : x.pattern = name)
Range(list) == {list[i] : i \in 1..Len(list)}

\* C23: the insights one generateInsights pass returns are about current
\* patterns, at most one per pattern: 'high-performer' with confidence =
\* successRate exactly when frequency >= 5 and successRate >= 0.9,
\* 'needs-improvement' with confidence = 1 - successRate exactly when
\* frequency >= 5 and successRate < 0.5, and none when frequency < 5 or
\* 0.5 <= successRate < 0.9.
C23_InsightThresholds ==
    learned.kind = "newInsights" =>
        /\ \A x \in Range(learned.insights) : PatternIndex(patterns, x.pattern) # 0
        /\ \A i \in 1..Len(patterns) :
              LET p == patterns[i]
                  mine == InsightsAbout(learned.insights, p.pattern)
                  high == p.frequency >= 5 /\ AtLeast(p.successRate, NumberOfRatio(9, 10))
                  low == p.frequency >= 5 /\ LessThan(p.successRate, NumberOfRatio(1, 2))
              IN  /\ Len(mine) <= 1
                  /\ high <=> mine = <<[pattern |-> p.pattern, category |-> "high-performer",
                                       confidence |-> p.successRate]>>
                  /\ low <=> mine = <<[pattern |-> p.pattern,
                                      category |-> "needs-improvement",
                                      confidence |-> NumberMinus(NumberOfInt(1),
                                                                 p.successRate)]>>
                  /\ (~high /\ ~low) <=> mine = <<>>

\* A pass has just returned a 'high-performer' and a 'needs-improvement'
\* insight for two patterns of five observations each.
C23_Witness ==
    /\ learned.kind = "newInsights"
    /\ Len(learned.insights) = 2
    /\ {learned.insights[1].category, learned.insights[2].category}
          = {"high-performer", "needs-improvement"}

\* C24: a generateInsights call returns the insights of its pass and
\* appends all of them to the log, keeping the entries already there in
\* order; a call that follows another on unchanged patterns returns the same
\* insights again, so the log holds them once per call.
C24_InsightLogKeepsDuplicates ==
    [][learned'.kind = "newInsights" =>
          /\ insights' = insights \o learned'.insights
          /\ learned.kind = "newInsights" =>
                /\ learned'.insights = learned.insights
                /\ Len(insights') = Len(insights) + Len(learned.insights)]_vars

\* Two consecutive passes have each returned the same insight: the log
\* holds it twice.
C24_Witness ==
    /\ learned.kind = "newInsights"
    /\ Len(learned.insights) = 1
    /\ insights = learned.insights \o learned.insights

\* C25: recordPattern, getPatterns, getSuccessfulPatterns and getInsights
\* leave the insight log as it is, whatever the patterns have reached.
C25_OnlyGenerateInsightsWritesTheLog ==
    [][learned'.kind \in {"pattern", "patterns", "successful", "insights"}
          => insights' = insights]_vars

\* recordPattern has just returned a pattern that qualifies as a high
\* performer, and the log is still empty.
C25_Witness ==
    /\ learned.kind = "pattern"
    /\ learned.pattern.frequency >= MinFrequency
    /\ AtLeast(learned.pattern.successRate, HighRate)
    /\ insights = <<>>

\* C26: getSuccessfulPatterns returns, in map order, exactly the patterns
\* whose successRate is at least the minimum asked for, 0.8 when none is
\* given, however few observations they rest on.
C26_SuccessfulPatternsHaveNoFloor ==
    learned.kind = "successful" =>
        LET minRate == IF learned.argument = <<>>
                       THEN NumberOfRatio(8, 10)
                       ELSE learned.argument[1]
        IN  /\ \A i \in 1..Len(patterns) :
                  patterns[i] \in Range(learned.patterns)
                      <=> AtLeast(patterns[i].successRate, minRate)
            /\ learned.patterns
                  = SelectSeq(patterns, LAMBDA p : p \in Range(learned.patterns))

\* getSuccessfulPatterns() has just returned a pattern observed once, with
\* success.
C26_Witness ==
    /\ learned.kind = "successful"
    /\ learned.argument = <<>>
    /\ \E p \in Range(learned.patterns) : p.frequency = 1 /\ p.successRate = One

\* C27: clear leaves the pattern map and the insight log empty, and a
\* recordPattern that follows it, also for a name seen before, creates a
\* pattern with frequency 1 and successRate 1 or 0, the only pattern then.
C27_ClearForgetsEverything ==
    /\ [](learned.kind = "cleared" => patterns = <<>> /\ insights = <<>>)
    /\ [][(learned.kind = "cleared" /\ learned'.kind = "pattern") =>
            /\ patterns' = <<learned'.pattern>>
            /\ learned'.pattern.frequency = 1
            /\ learned'.pattern.successRate \in {NumberOfInt(0), NumberOfInt(1)}
            /\ tally'[learned'.pattern.pattern].seen = 1]_vars

\* A name that had been observed and then cleared has just been recorded
\* again.
C27_Witness ==
    /\ learned.kind = "pattern"
    /\ learned.afterClear
    /\ learned.pattern.frequency = 1

\* The caller modifies something a ledger handed it.
CallerModifies ==
    \/ \E k \in 1..MaxRecords : CallerSetsImpact(k)
    \/ CallerPopsList

\* C28: what a ledger hands out is a copy: when the caller assigns to a field
\* of a record it was handed, or removes an element of a list it was handed,
\* the records the ledger stores stay as they were.
C28_CallerCannotChangeTheLedger ==
    [][CallerModifies => UNCHANGED <<enhancements, recommendations>>]_vars

\* The estimatedImpact of the stored records, in ledger order.
Impacts(recs) == [i \in 1..Len(recs) |-> recs[i].estimatedImpact]

\* top lists count of the records of recs, those of greatest estimatedImpact,
\* greatest first and records of equal impact in ledger order.
IsTop(top, recs, count) ==
    /\ Len(top) = Min(count, Len(recs))
    /\ \A a \in 1..Len(top) : top[a] \in 1..Len(recs)
    /\ \A a, b \in 1..Len(top) :
           a < b => \/ recs[top[a]].estimatedImpact > recs[top[b]].estimatedImpact
                    \/ /\ recs[top[a]].estimatedImpact = recs[top[b]].estimatedImpact
                       /\ top[a] < top[b]
    /\ \A i \in 1..Len(recs) : \A a \in 1..Len(top) :
           i \notin Range(top) =>
               recs[top[a]].estimatedImpact >= recs[i].estimatedImpact

\* C29: getTopRecommendations(limit), limit a count (10 when absent), returns
\* min(limit, n) of the n stored recommendations, those of greatest
\* estimatedImpact, ordered by estimatedImpact descending with ties in
\* insertion order, and leaves the stored ledger as it was.
C29_TopRecommendationsByImpact ==
    [][\A limit \in TopLimits :
          (GetTopRecommendations(limit) /\ Coalesce(limit, DefaultTopLimit) >= 0) =>
              /\ IsTop(observed'.list, recommendations,
                       Coalesce(limit, DefaultTopLimit))
              /\ recommendations' = recommendations]_vars

\* Impacts 60, 95, 60 and limit 2: the top two are the second record and the
\* first, the earlier of the two records of impact 60.
C29_Witness ==
    /\ observed.kind = "held"
    /\ observed.query = "getTopRecommendations"
    /\ observed.number = <<2>>
    /\ Impacts(recommendations) = <<60, 95, 60>>
    /\ observed.list = <<2, 1>>

RECURSIVE TotalImpact(_)
TotalImpact(list) ==
    IF list = <<>> THEN 0 ELSE Head(list).impact + TotalImpact(Tail(list))

\* C30: the averageEnhancementLevel getMetrics reports is the arithmetic mean
\* of the impacts of the stored enhancements, BASELINE when there are none,
\* and the metrics never hold an average below BASELINE.
C30_AverageIsTheMeanOrBaseline ==
    /\ metrics.averageEnhancementLevel.den > 0
    /\ metrics.averageEnhancementLevel.num >=
           BASELINE * metrics.averageEnhancementLevel.den
    /\ observed.kind = "metrics" =>
           LET average == observed.metrics.averageEnhancementLevel
           IN  IF enhancements = <<>>
               THEN average.num = BASELINE * average.den
               ELSE average.num * Len(enhancements) =
                        TotalImpact(enhancements) * average.den

\* getMetrics after an execute that stored an enhancement of impact 110 and
\* one of impact 120 reports 115.
C30_Witness ==
    /\ observed.kind = "metrics"
    /\ Len(enhancements) = 2
    /\ {enhancements[1].impact, enhancements[2].impact} = {ENHANCED, EXCEPTIONAL}
    /\ observed.metrics.averageEnhancementLevel.num =
           115 * observed.metrics.averageEnhancementLevel.den

\* C31: every endpoint of the controller answers with an envelope and its
\* promise never rejects: success, the data the wrapped call returned and a
\* timestamp when the call returned; no success, String(error) and a
\* timestamp when it threw.
C31_AlwaysAnEnvelope ==
    observed.kind = "response" =>
        /\ observed.settles = "resolved"
        /\ observed.timestamp = now
        /\ IF observed.wrapped.kind = "returned"
           THEN /\ observed.success
                /\ observed.data = observed.wrapped.value
                /\ observed.error = <<>>
           ELSE /\ ~observed.success
                /\ observed.data = <<>>
                /\ observed.error = <<ErrorPrefix \o observed.wrapped.error>>

\* After an executeOperation that succeeded, the execute of a later
\* executeOperation threw 'Test error' and the endpoint answered with the
\* failure envelope.
C31_Witness ==
    /\ observed.kind = "response"
    /\ observed.endpoint = "executeOperation"
    /\ ~observed.success
    /\ observed.error = <<StringOfError(TestError)>>
    /\ metrics.successfulOperations = 1

\* C32: an HTTP or WebSocket adapter is connected exactly when the last of
\* connect and disconnect called on it was connect (not connected before
\* any); send and receive throw 'Not connected' when it is not connected,
\* resolve when it is, and leave the connection as it was.
C32_ConnectedAfterConnectOnly ==
    /\ \A i \in 1..Len(adapters) :
           adapters[i].kind \in BuiltInKinds =>
               (adapters[i].connected <=> adapters[i].lifecycle = "connect")
    /\ integrated.op \in {"send", "receive"} =>
           /\ adapters[integrated.adapter].connected = integrated.connectedBefore
           /\ IF integrated.connectedBefore
              THEN /\ ~integrated.threw
                   /\ integrated.value =
                          (IF integrated.op = "send" THEN "true" ELSE "object")
              ELSE /\ integrated.threw
                   /\ integrated.error = NotConnected

\* send on an adapter that was connected and then disconnected throws.
C32_Witness ==
    /\ integrated.op = "send"
    /\ integrated.threw
    /\ adapters[integrated.adapter].lifecycle = "disconnect"

\* C33: connectAll returns true only if every adapter's connect reported
\* success, and then every registered adapter is connected; disconnectAll
\* returns true only if every disconnect reported success, and then no
\* registered adapter is connected. With HTTP and WebSocket adapters alone
\* both return true.
C33_AllOrNothing ==
    integrated.op \in {"connectAll", "disconnectAll"} =>
        /\ Len(integrated.reports) = Len(adapters)
        /\ integrated.value = "true" =>
               /\ \A i \in 1..Len(adapters) : integrated.reports[i]
               /\ IF integrated.op = "connectAll"
                  THEN getConnectedAdapters(adapters) = getAdapters(adapters)
                  ELSE getConnectedAdapters(adapters) = <<>>
        /\ (\A i \in 1..Len(adapters) : adapters[i].kind \in BuiltInKinds) =>
               integrated.value = "true"

\* connectAll returned false for two adapters of which one reported success.
C33_Witness ==
    /\ integrated.op = "connectAll"
    /\ integrated.value = "false"
    /\ Len(adapters) = 2
    /\ \E i \in 1..2 : integrated.reports[i]
    /\ getConnectedAdapters(adapters) = <<1>>

\* The operation of call c settles in this step.
OperationSettles(c) ==
    \/ \E v \in OperationValues : OperationResolves(c, v)
    \/ \E message \in ErrorMessages : OperationRejects(c, message)

\* C34: execute has no timeout and no cancellation. A call leaves the await
\* of its operation only in the step in which the operation settles, however
\* much time passes, and stays counted in totalOperations meanwhile; once
\* the operation has settled the call settles: in the same step, or, for a
\* failure with self-healing enabled, when the await of attemptSelfHealing
\* resumes.
C34_SettlesWhenTheOperationDoes ==
    /\ [][\A c \in Calls :
             (calls[c].pc = "awaiting" /\ calls'[c].pc # "awaiting") =>
                 OperationSettles(c)]_vars
    /\ [](metrics.totalOperations >=
              Cardinality(Pending) + Cardinality({c \in Calls : calls[c].pc = "healing"}))
    /\ \A c \in Calls : (calls[c].pc = "healing") ~> (calls[c].pc = "idle")

\* The clock has reached its last value and the operation of the second
\* call is still pending: the call has not settled and is counted.
C34_Witness ==
    /\ calls[1].pc = "awaiting"
    /\ now = MaxTime
    /\ metrics.totalOperations = 2
    /\ metrics.successfulOperations + metrics.failedOperations = 1

\* The counters of the metrics.
Counters ==
    {"totalOperations", "successfulOperations", "failedOperations",
     "enhancedOperations", "totalRecommendations", "implementedRecommendations"}

\* C35: in every reachable state enhancedOperations <= successfulOperations
\* <= totalOperations and failedOperations <= totalOperations,
\* implementedRecommendations is 0, and no step decreases a counter.
C35_CountersOrderedAndMonotone ==
    /\ [](/\ metrics.enhancedOperations <= metrics.successfulOperations
          /\ metrics.successfulOperations <= metrics.totalOperations
          /\ metrics.failedOperations <= metrics.totalOperations
          /\ metrics.implementedRecommendations = 0)
    /\ [][\A counter \in Counters : metrics'[counter] >= metrics[counter]]_vars

\* A success that was not enhanced and a failure: 0 < 1 < 2 and 1 < 2.
C35_Witness ==
    /\ metrics.enhancedOperations = 0
    /\ metrics.successfulOperations = 1
    /\ metrics.failedOperations = 1
    /\ metrics.totalOperations = 2
    /\ \A c \in Calls : calls[c].pc = "idle"

\* C36: the step in which a failed call goes on to self-healing adds 1 to
\* failedOperations and leaves successfulOperations and enhancedOperations
\* as they were; the step that returns the healed result (success = true,
\* data.healed = true) changes no counter; so the successRate getHealthCheck
\* reports, successfulOperations * 100 / (totalOperations || 1), counts the
\* healed call as a failure.
C36_HealedCountsAsFailure ==
    /\ [][\A c \in Calls :
             /\ (calls[c].pc # "healing" /\ calls'[c].pc = "healing") =>
                    /\ metrics'.failedOperations = metrics.failedOperations + 1
                    /\ metrics'.successfulOperations = metrics.successfulOperations
                    /\ metrics'.enhancedOperations = metrics.enhancedOperations
                    /\ calls'[c].healingResult.success
                    /\ calls'[c].healingResult.data.healed
             /\ (settled'.call = c /\ settled'.result.data.healed) =>
                    /\ calls[c].pc = "healing"
                    /\ settled'.result.success
                    /\ metrics' = metrics]_vars
    /\ [](observed.kind = "health" =>
              /\ observed.successRate.num = metrics.successfulOperations * 100
              /\ observed.successRate.den =
                     (IF metrics.totalOperations = 0 THEN 1 ELSE metrics.totalOperations)
              /\ metrics.successfulOperations + metrics.failedOperations
                     <= metrics.totalOperations)

\* After one execute call, which was healed, getHealthCheck reports a
\* success rate of 0.
C36_Witness ==
    /\ observed.kind = "health"
    /\ config.enableSelfHealing
    /\ metrics.totalOperations = 1
    /\ metrics.failedOperations = 1
    /\ \A c \in Calls : calls[c].pc = "idle"
    /\ observed.successRate.num = 0
    /\ ~observed.healthy

\* C37: with continuous improvement enabled, totalRecommendations is twice
\* successfulOperations while the ledger holds, besides those two per
\* success, one healing recommendation for every failure that went on to
\* self-healing (every failure when self-healing is enabled, none otherwise).
C37_HealingRecommendationsUncounted ==
    config.enableContinuousImprovement =>
        /\ metrics.totalRecommendations = 2 * metrics.successfulOperations
        /\ Len(recommendations) =
               2 * metrics.successfulOperations
               + (IF config.enableSelfHealing THEN metrics.failedOperations ELSE 0)
        /\ Cardinality({i \in 1..Len(recommendations) :
                            recommendations[i].category = "self-healing"}) =
               (IF config.enableSelfHealing THEN metrics.failedOperations ELSE 0)

\* One success and one healed failure, both completed: the metrics count 2
\* recommendations, the ledger holds 3.
C37_Witness ==
    /\ config.enableContinuousImprovement
    /\ config.enableSelfHealing
    /\ \A c \in Calls : calls[c].pc = "idle"
    /\ metrics.successfulOperations = 1
    /\ metrics.failedOperations = 1
    /\ metrics.totalRecommendations = 2
    /\ Len(recommendations) = 3

\* Every execute call has settled.
AllSettled == \A c \in Calls : calls[c].pc = "idle"

\* The identifiers of the records of both ledgers.
LedgerIds ==
    {enhancements[i].id : i \in 1..Len(enhancements)}
    \cup {recommendations[i].id : i \in 1..Len(recommendations)}

\* The number of successes that stored a second enhancement.
Validated ==
    Cardinality({i \in 1..Len(enhancements) : enhancements[i].impact = EXCEPTIONAL})

\* C38: whatever the interleaving of the execute calls at their awaits,
\* totalOperations is the number of calls started, and once all have settled
\* successfulOperations + failedOperations = totalOperations; every record
\* created is stored once (the identifiers handed out are those of the
\* stored records, none missing, none twice), the ledgers holding one or two
\* enhancements and two recommendations per success and one recommendation
\* per failure that went on to self-healing.
C38_NoLostUpdateUnderInterleaving ==
    /\ [][metrics'.totalOperations =
             metrics.totalOperations + (IF StartsCall THEN 1 ELSE 0)]_vars
    /\ [](AllSettled =>
              metrics.successfulOperations + metrics.failedOperations =
                  metrics.totalOperations)
    /\ [](/\ LedgerIds = 1..(nextId - 1)
          /\ Len(enhancements) + Len(recommendations) = nextId - 1
          /\ Len(enhancements) =
                 (IF config.enableContinuousImprovement
                  THEN metrics.successfulOperations + Validated ELSE 0)
          /\ Validated <= metrics.successfulOperations
          /\ Len(recommendations) =
                 (IF config.enableContinuousImprovement
                  THEN 2 * metrics.successfulOperations ELSE 0)
                 + (IF config.enableSelfHealing THEN metrics.failedOperations ELSE 0))

\* Call 1 has just returned its healed result and all calls have settled,
\* yet the last recommendation of the ledger is one of call 2: call 2
\* settled while call 1 was suspended.
C38_Witness ==
    /\ AllSettled
    /\ settled.call = 1
    /\ settled.result.data.healed
    /\ metrics.totalOperations = 2
    /\ metrics.successfulOperations = 1
    /\ metrics.failedOperations = 1
    /\ recommendations[Len(recommendations)].operationName = OperationName(2)

\* C39: getHealthCheck on a system that has executed nothing reports
\* healthy = false and status 'degraded' with a success rate of 0 / 1 * 100,
\* whatever the uptime.
C39_FreshSystemIsDegraded ==
    (observed.kind = "health" /\ metrics.totalOperations = 0) =>
        /\ ~observed.healthy
        /\ observed.status = "degraded"
        /\ observed.successRate = [num |-> 0, den |-> 1]
        /\ observed.issues = <<"Success rate below threshold">>

\* The health check of a system that has executed nothing, after time has
\* passed.
C39_Witness ==
    /\ observed.kind = "health"
    /\ metrics.totalOperations = 0
    /\ observed.uptime > 0
    /\ ~observed.healthy

\* s is a prefix of t.
IsPrefix(s, t) == Len(s) <= Len(t) /\ SubSeq(t, 1, Len(s)) = s

\* C40: no step removes or changes a stored record: each ledger before a
\* step is a prefix of the ledger after it; every stored enhancement is
\* (ENHANCED, MEDIUM) or (EXCEPTIONAL, LOW) and every stored recommendation
\* has an estimatedImpact of 50, 75 or 90.
C40_LedgersAppendOnly ==
    /\ [][/\ IsPrefix(enhancements, enhancements')
          /\ IsPrefix(recommendations, recommendations')]_vars
    /\ [](/\ \A i \in 1..Len(enhancements) :
                 <<enhancements[i].impact, enhancements[i].priority>>
                     \in {<<ENHANCED, MEDIUM>>, <<EXCEPTIONAL, LOW>>}
          /\ \A i \in 1..Len(recommendations) :
                 /\ recommendations[i].estimatedImpact \in {50, 75, 90}
                 /\ recommendations[i].estimatedImpact \in 0..100)

\* The ledgers hold records of every kind and getMetrics has just run.
C40_Witness ==
    /\ observed.kind = "metrics"
    /\ {enhancements[i].impact : i \in 1..Len(enhancements)} = {ENHANCED, EXCEPTIONAL}
    /\ {recommendations[i].estimatedImpact : i \in 1..Len(recommendations)} = {50, 75, 90}

====
